---- MODULE Spec2Model ----
(***************************************************************************)
(* Space Switching add-on (src/__init__.py): the operators that build and  *)
(* remove temporary bones, and custom_bake, over a small scene.            *)
(*                                                                         *)
(* The scene is one source armature object "Rig" with three bones and the  *)
(* temporary armature object the add-on creates on demand.  Transforms     *)
(* are restricted to one axis: a location along the bone axis, a rotation  *)
(* about it and a scale, each an integer that composes by addition with    *)
(* the parent's.  A keyed value is the transform itself, not one of its    *)
(* encodings.  Every animation channel holds one F-curve.                  *)
(***************************************************************************)
EXTENDS Integers, Sequences, FiniteSets, TLC

VARIABLES
    objects,        \* bpy.data.objects of type ARMATURE: set of object names
    bones,          \* [<<object, bone name>> -> bone record]
    order,          \* [object -> Seq(bone name)]: obj.pose.bones in order
    fcurves,        \* [object with an action -> Seq(curve)]: obj.animation_data.action.fcurves
    frame_current,  \* scene.frame_current
    mode,           \* context.mode: "POSE", "OBJECT" or "EDIT"
    activeObj,      \* context.view_layer.objects.active
    activeBone,     \* [object -> bone name or NoName]: obj.data.bones.active
    hide_viewport,  \* the objects with hide_viewport set
    last,           \* the operator invoked last, its inputs and how it ended
    runs,           \* operators run in this session so far
    task            \* the call of custom_bake in progress: its position and locals

vars == <<objects, bones, order, fcurves, frame_current, mode, activeObj, activeBone,
          hide_viewport, last, runs, task>>

-----------------------------------------------------------------------------
(* Bounds of the model *)

\* Frames an operator's frame_start / frame_end are drawn from: 1..MaxFrame.
MaxFrame == 2
\* Most bones the temporary armature holds; an operator that would exceed it
\* is not started.
MaxTempBones == 3
\* Most bones the user selects at once.
MaxSelect == 2
\* Most operators the user runs in one session.
MaxRuns == 3

-----------------------------------------------------------------------------
(* Names *)

NoName == ""
NoId == <<"", "">>
RigObj == "Rig"
\* SPACE_SWITCHING_AddonPreferences.object_name
object_name == "SpaceSwitching"
\* SPACE_SWITCHING_AddonPreferences.empty_name
empty_name == "Empty"
\* SPACE_SWITCHING_AddonPreferences.copy_name, "{bone_name}_Copy"
copy_name(bone_name) == bone_name \o "_Copy"
\* SPACE_SWITCHING_AddonPreferences.parent_name, "{bone_name}_Parent"
parent_name(bone_name) == bone_name \o "_Parent"
\* SPACE_SWITCHING_AddonPreferences.space_name, "{bone_name}_Space"
space_name(bone_name) == bone_name \o "_Space"
\* SPACE_SWITCHING_AddonPreferences.local_armature_object_name, "{object}_Local"
local_armature_object_name(object) == object \o "_Local"

\* The numeric suffix edit_bones.new appends to a name that is taken.
NameSuffix(n) ==
    CASE n = 0 -> ""
      [] n = 1 -> ".001"
      [] n = 2 -> ".002"
      [] n = 3 -> ".003"
      [] n = 4 -> ".004"
      [] n = 5 -> ".005"
      [] n = 6 -> ".006"
      [] OTHER -> ".007"

\* edit_bones.new(desired): the name the new bone gets among the names `taken`.
UniqueName(taken, desired) ==
    LET free == {n \in 0..7 : (desired \o NameSuffix(n)) \notin taken}
        n == CHOOSE k \in free : \A j \in free : k <= j
    IN  desired \o NameSuffix(n)

-----------------------------------------------------------------------------
(* Small helpers *)

Max(S) == CHOOSE x \in S : \A y \in S : y <= x
Min(S) == CHOOSE x \in S : \A y \in S : x <= y
Range(s) == {s[i] : i \in DOMAIN s}
\* range(frame_start, frame_end + 1)
FrameRange(a, b) == [i \in 1..(IF b >= a THEN b - a + 1 ELSE 0) |-> a + i - 1]

RECURSIVE SeqFilter(_, _)
SeqFilter(s, keep) ==
    IF s = <<>> THEN <<>>
    ELSE IF Head(s) \in keep THEN <<Head(s)>> \o SeqFilter(Tail(s), keep)
         ELSE SeqFilter(Tail(s), keep)

\* The world an operator works on, as one record.
World == [objects |-> objects, bones |-> bones, order |-> order, fcurves |-> fcurves,
          frame_current |-> frame_current, mode |-> mode, activeObj |-> activeObj,
          activeBone |-> activeBone, hide_viewport |-> hide_viewport]

ZeroT == [loc |-> 0, rot |-> 0, scale |-> 0]

\* The tags register() declares on bpy.types.Bone.
Tags == {"NONE", "EMPTY", "SPACE", "COPY"}

NewBone(parent, connect, length, restHead, rotation_mode) ==
    [parent |-> parent, use_connect |-> connect, length |-> length, restHead |-> restHead,
     rotation_mode |-> rotation_mode, hide |-> FALSE, select |-> FALSE,
     space_switching_tag |-> "NONE", constraints |-> <<>>, basis |-> ZeroT]

NewConstraint(type, target, subtarget, head_tail) ==
    [type |-> type, target |-> target, subtarget |-> subtarget, head_tail |-> head_tail,
     pole_target |-> NoName, pole_subtarget |-> NoName]

\* All bone ids of object obj, in pose.bones order.
BoneIds(w, obj) == [i \in DOMAIN w.order[obj] |-> <<obj, w.order[obj][i]>>]

RECURSIVE SetToSeq(_)
SetToSeq(S) ==
    IF S = {} THEN <<>>
    ELSE <<CHOOSE x \in S : TRUE>> \o SetToSeq(S \ {CHOOSE x \in S : TRUE})

\* get_armature_objects(): the armature objects, the source first, then its
\* local duplicates, then the temporary armature.
get_armature_objects(w) ==
    (IF RigObj \in w.objects THEN <<RigObj>> ELSE <<>>)
    \o SetToSeq(w.objects \ {RigObj, object_name})
    \o (IF object_name \in w.objects THEN <<object_name>> ELSE <<>>)

RECURSIVE Flatten(_)
Flatten(ss) == IF ss = <<>> THEN <<>> ELSE Head(ss) \o Flatten(Tail(ss))

\* Every pose bone of every armature object: for obj in ...: for bone in obj.pose.bones
AllBoneIds(w) ==
    LET objs == get_armature_objects(w)
    IN  Flatten([i \in DOMAIN objs |-> BoneIds(w, objs[i])])

\* context.selected_pose_bones: the selected bones that are visible.
selected_pose_bones(w) ==
    LET all == AllBoneIds(w)
    IN  SeqFilter(all, {id \in Range(all) : w.bones[id].select /\ ~w.bones[id].hide})

\* context.active_pose_bone: the active bone of the active object.
active_pose_bone(w) ==
    IF w.activeObj \in w.objects /\ w.activeBone[w.activeObj] # NoName
    THEN <<w.activeObj, w.activeBone[w.activeObj]>>
    ELSE NoId

-----------------------------------------------------------------------------
(* Initial scene *)

RigBones ==
    (<<RigObj, "Root">> :> NewBone(NoName, FALSE, 2, 0, "XYZ"))
    @@ (<<RigObj, "Arm">> :> NewBone("Root", TRUE, 1, 2, "XYZ"))
    @@ (<<RigObj, "Hand">> :> [NewBone("Arm", FALSE, 1, 4, "QUATERNION")
                                 EXCEPT !.basis = [loc |-> 1, rot |-> 1, scale |-> 0]])

\* What is recorded of a step: the operator, how it ended, whether it changed
\* anything, the step it came after, the selection and active bone it was
\* invoked on, its inputs, what it worked on and, for a switch to world, the
\* pose its sources had on each frame before it.
Journal(op, outcome) ==
    [op |-> op, outcome |-> outcome, changed |-> TRUE, after |-> "none",
     selected |-> <<>>, active |-> NoId, dest |-> NoId, frames |-> <<>>, channels |-> {},
     sources |-> <<>>, copies |-> <<>>, baked |-> <<>>, found |-> <<>>, names |-> <<>>,
     motion |-> <<>>, old_object |-> NoName, dest_object |-> NoName]

Curve(bone, channel, keys, lock) ==
    [bone |-> bone, channel |-> channel, keys |-> keys, lock |-> lock]

\* The source's action: keys on frames 1 and MaxFrame; the Hand's location
\* curve may be locked by the animator.
RigAnimation(lock) ==
    << Curve("Root", "location", (1 :> 0) @@ (MaxFrame :> 1), FALSE),
       Curve("Arm", "rotation_euler", (1 :> 0) @@ (MaxFrame :> 1), FALSE),
       Curve("Hand", "location", (1 :> 1) @@ (MaxFrame :> 2), lock),
       Curve("Hand", "rotation_quaternion", (1 :> 1) @@ (MaxFrame :> 0), FALSE) >>

\* No call of custom_bake is in progress.
Idle == [pc |-> "idle"]

\* The scene the session starts from, in mode m, the source's animation being
\* one of `actions`.
InitSceneIn(actions, m) ==
    /\ objects = {RigObj}
    /\ bones = RigBones
    /\ order = (RigObj :> <<"Root", "Arm", "Hand">>)
    /\ fcurves \in actions
    /\ frame_current = 0
    /\ mode = m
    /\ activeObj = RigObj
    /\ activeBone = (RigObj :> NoName)
    /\ hide_viewport = {}
    /\ last = Journal("none", "none")
    /\ runs = 0
    /\ task = Idle

\* The scene the session starts from in pose mode.
InitScene(actions) == InitSceneIn(actions, "POSE")

\* An animated source whose Hand location curve is locked.
Init == InitScene({(RigObj :> RigAnimation(TRUE))})

\* An animated source, the Hand location curve locked or not.
InitAnimated == InitScene({(RigObj :> RigAnimation(FALSE)), (RigObj :> RigAnimation(TRUE))})

\* A source without an action, or an animated one.
InitAny ==
    InitScene({<<>>, (RigObj :> RigAnimation(FALSE)), (RigObj :> RigAnimation(TRUE))})

\* The same scenes in object mode.
InitObjectMode ==
    InitSceneIn({<<>>, (RigObj :> RigAnimation(FALSE)), (RigObj :> RigAnimation(TRUE))}, "OBJECT")

-----------------------------------------------------------------------------
(* The host's evaluation of a pose *)

\* The rotation property keyed for a rotation_mode (custom_bake, lines 76-98).
RotChannel(rotation_mode) ==
    IF rotation_mode = "QUATERNION" THEN "rotation_quaternion"
    ELSE IF rotation_mode = "AXIS_ANGLE" THEN "rotation_axis_angle"
    ELSE "rotation_euler"

\* Index of the F-curve of bone id and channel in its object's action, or 0.
Curves(w, obj) == IF obj \in DOMAIN w.fcurves THEN w.fcurves[obj] ELSE <<>>

CurveIndex(w, id, channel) ==
    LET cs == Curves(w, id[1])
        idx == {i \in DOMAIN cs : cs[i].bone = id[2] /\ cs[i].channel = channel}
    IN  IF idx = {} THEN 0 ELSE Min(idx)

\* An F-curve evaluated at frame f: the key at f, else the last key before f
\* held, else the first key.
CurveValue(keys, f) ==
    IF f \in DOMAIN keys THEN keys[f]
    ELSE LET before == {g \in DOMAIN keys : g < f}
         IN  IF before # {} THEN keys[Max(before)] ELSE keys[Min(DOMAIN keys)]

\* One channel of a bone at frame f: the value of its curve, the i-th of the
\* action, or the posed value when the channel is not animated (i = 0).
ChannelValue(w, id, i, comp, f) ==
    IF i = 0 THEN w.bones[id].basis[comp] ELSE CurveValue(Curves(w, id[1])[i].keys, f)

ChannelAt(w, id, channel, comp, f) == ChannelValue(w, id, CurveIndex(w, id, channel), comp, f)

\* matrix_basis of a bone once the animation is evaluated at frame f.
BasisAt(w, id, f) ==
    [loc |-> ChannelAt(w, id, "location", "loc", f),
     rot |-> ChannelAt(w, id, RotChannel(w.bones[id].rotation_mode), "rot", f),
     scale |-> ChannelAt(w, id, "scale", "scale", f)]

\* scene.frame_set(f); view_layer.update(): the cursor moves and every animated
\* channel takes its curve's value.
frame_set(w, f) ==
    [w EXCEPT !.frame_current = f,
              !.bones = [id \in DOMAIN w.bones |-> [w.bones[id] EXCEPT !.basis = BasisAt(w, id, f)]]]

\* Depth to which parents and constraint targets are followed.
EvalDepth(w) == Cardinality(DOMAIN w.bones)

ParentId(w, id) ==
    IF w.bones[id].parent # NoName /\ <<id[1], w.bones[id].parent>> \in DOMAIN w.bones
    THEN <<id[1], w.bones[id].parent>> ELSE NoId

\* Rest position of the head of bone pid, 0 for no bone.
RestHeadOf(w, pid) == IF pid = NoId THEN 0 ELSE w.bones[pid].restHead

\* A bone's pose before its constraints: the parent's pose pp, the rest offset
\* from the parent and the bone's own channels; a connected bone has no
\* location of its own.
PoseBase(b, own, rooted, pp, parentRest) ==
    IF rooted
    THEN [loc |-> b.restHead + own.loc, rot |-> own.rot, scale |-> own.scale]
    ELSE [loc |-> pp.loc + (b.restHead - parentRest) + (IF b.use_connect THEN 0 ELSE own.loc),
          rot |-> pp.rot + own.rot,
          scale |-> pp.scale + own.scale]

\* One constraint applied to a pose, tp being its target's pose: COPY_TRANSFORMS,
\* COPY_LOCATION (head_tail picks the point on the target) and COPY_ROTATION.
\* A constraint without a target bone does nothing; the IK solver is not
\* evaluated.
Constrained(c, pose, valid, tp, targetLength) ==
    IF ~valid THEN pose
    ELSE CASE c.type = "COPY_TRANSFORMS" -> tp
           [] c.type = "COPY_LOCATION" -> [pose EXCEPT !.loc = tp.loc + c.head_tail * targetLength]
           [] c.type = "COPY_ROTATION" -> [pose EXCEPT !.rot = tp.rot]
           [] OTHER -> pose

RECURSIVE PoseMatrix(_, _, _, _)
RECURSIVE ApplyConstraints(_, _, _, _, _)
RECURSIVE TargetPose(_, _, _, _)

\* pose_bone.matrix at frame f: the pose before constraints, then the bone's
\* constraints in stack order.
PoseMatrix(w, id, f, depth) ==
    ApplyConstraints(w, w.bones[id].constraints,
                     PoseBase(w.bones[id], BasisAt(w, id, f), ParentId(w, id) = NoId,
                              TargetPose(w, ParentId(w, id), f, depth),
                              RestHeadOf(w, ParentId(w, id))),
                     f, depth)

\* The pose of a parent or of a constraint's target.
TargetPose(w, tid, f, depth) ==
    IF tid \in DOMAIN w.bones /\ depth > 0 THEN PoseMatrix(w, tid, f, depth - 1) ELSE ZeroT

ApplyConstraints(w, cons, pose, f, depth) ==
    IF cons = <<>> THEN pose
    ELSE ApplyConstraints(w, Tail(cons),
             Constrained(Head(cons), pose,
                         <<Head(cons).target, Head(cons).subtarget>> \in DOMAIN w.bones /\ depth > 0,
                         TargetPose(w, <<Head(cons).target, Head(cons).subtarget>>, f, depth),
                         IF <<Head(cons).target, Head(cons).subtarget>> \in DOMAIN w.bones
                         THEN w.bones[<<Head(cons).target, Head(cons).subtarget>>].length ELSE 0),
             f, depth)

\* The visual transform of a bone at frame f.
VisualPose(w, id, f) == PoseMatrix(w, id, f, EvalDepth(w))

\* The matrix_basis that gives a bone the pose m under a parent posed pp.
ToLocal(b, m, rooted, pp, parentRest) ==
    IF rooted
    THEN [loc |-> m.loc - b.restHead, rot |-> m.rot, scale |-> m.scale]
    ELSE [loc |-> m.loc - pp.loc - (b.restHead - parentRest),
          rot |-> m.rot - pp.rot,
          scale |-> m.scale - pp.scale]

\* convert_space that takes every bone for a bone without a parent.
convert_space_rooted(w, id, f) ==
    ToLocal(w.bones[id], VisualPose(w, id, f), TRUE, ZeroT, 0)

\* id_data.convert_space(pose_bone, matrix = pose_bone.matrix, 'POSE' -> 'LOCAL')
\* at frame f: the matrix_basis that reproduces the bone's visual transform.
convert_space(w, id, f) ==
    ToLocal(w.bones[id], VisualPose(w, id, f), ParentId(w, id) = NoId,
            IF ParentId(w, id) = NoId THEN ZeroT ELSE VisualPose(w, ParentId(w, id), f),
            RestHeadOf(w, ParentId(w, id)))

-----------------------------------------------------------------------------
(* custom_bake *)

\* The curves of an action with a new curve c put at the end of its bone's
\* group (at the end of the action when the group is new).
WithCurve(cs, c, group) ==
    IF group = {} THEN Append(cs, c)
    ELSE SubSeq(cs, 1, Max(group)) \o <<c>> \o SubSeq(cs, Max(group) + 1, Len(cs))

\* A key of the given value put on the i-th curve of cs at a frame; i = 0
\* makes the curve, and a locked curve cannot be keyed.
KeyedAt(w, id, channel, cs, i, value, frame) ==
    IF i = 0
    THEN [w |-> [w EXCEPT !.fcurves =
                    (id[1] :> WithCurve(cs, Curve(id[2], channel, (frame :> value), FALSE),
                                        {j \in DOMAIN cs : cs[j].bone = id[2]})) @@ @],
          ok |-> TRUE]
    ELSE IF cs[i].lock THEN [w |-> w, ok |-> FALSE]
    ELSE [w |-> [w EXCEPT !.fcurves[id[1]][i].keys =
                    [g \in (DOMAIN cs[i].keys) \cup {frame} |->
                        IF g = frame THEN value ELSE cs[i].keys[g]]],
          ok |-> TRUE]

\* pose_bone.keyframe_insert(channel, index=-1, frame=frame, group=pose_bone.name):
\* keys the bone's current value.  The key goes into the channel's curve, made
\* at the end of the bone's group when there is none (and the action with it);
\* a locked curve cannot be keyed and the call raises RuntimeError.
keyframe_insert(w, id, channel, comp, frame) ==
    KeyedAt(w, id, channel, Curves(w, id[1]), CurveIndex(w, id, channel),
            w.bones[id].basis[comp], frame)

\* One keyframe_insert of the write loop: made when the loop is still running
\* and the channel is asked for.
KeyIf(r, wanted, id, channel, comp, frame) ==
    IF r.ok /\ wanted THEN keyframe_insert(r.w, id, channel, comp, frame) ELSE r

\* bake_write_frame without the test of use_connect.
bake_write_frame_located(w, id, frame, matrix, do_location, do_rotation, do_scale) ==
    KeyIf(KeyIf(KeyIf([w |-> [w EXCEPT !.bones[id].basis = matrix], ok |-> TRUE],
                      do_location, id, "location", "loc", frame),
                do_rotation, id, RotChannel(w.bones[id].rotation_mode), "rot", frame),
          do_scale, id, "scale", "scale", frame)

\* Lines 69-101: one bone at one frame of the write loop.
bake_write_frame(w, id, frame, matrix, do_location, do_rotation, do_scale) ==
    KeyIf(KeyIf(KeyIf([w |-> [w EXCEPT !.bones[id].basis = matrix], ok |-> TRUE],
                      do_location /\ ~w.bones[id].use_connect, id, "location", "loc", frame),
                do_rotation, id, RotChannel(w.bones[id].rotation_mode), "rot", frame),
          do_scale, id, "scale", "scale", frame)

\* Lines 65-101: the write loop, bones in the caller's order and, per bone,
\* frames in the caller's order; it stops at the first insert that raises.
RECURSIVE bake_write(_, _, _, _, _, _, _, _)
bake_write(r, pose_bones, frames, pose_info, n, do_location, do_rotation, do_scale) ==
    IF ~r.ok \/ n >= Len(pose_bones) * Len(frames) THEN r
    ELSE bake_write(bake_write_frame(r.w, pose_bones[(n \div Len(frames)) + 1],
                                     frames[(n % Len(frames)) + 1],
                                     pose_info[(n \div Len(frames)) + 1][(n % Len(frames)) + 1],
                                     do_location, do_rotation, do_scale),
                    pose_bones, frames, pose_info, n + 1, do_location, do_rotation, do_scale)

\* Lines 52-61: the visual transform of each bone on each frame.
bake_sample(w, frames, pose_bones) ==
    [i \in DOMAIN pose_bones |-> [k \in DOMAIN frames |-> convert_space(w, pose_bones[i], frames[k])]]

\* Line 103, reached when no insert raised.
bake_end(r, original_frame) ==
    IF r.ok
    THEN [w |-> frame_set(r.w, original_frame), outcome |-> "FINISHED"]
    ELSE [w |-> r.w, outcome |-> "RuntimeError"]

\* custom_bake that tests the channels after the sampling loop.
custom_bake_late(w, frames, pose_bones, do_location, do_rotation, do_scale) ==
    IF ~do_location /\ ~do_rotation /\ ~do_scale
    THEN [w |-> IF frames = <<>> THEN w ELSE frame_set(w, frames[Len(frames)]),
          outcome |-> "ValueError"]
    ELSE bake_end(bake_write([w |-> IF frames = <<>> THEN w ELSE frame_set(w, frames[Len(frames)]),
                              ok |-> TRUE],
                             pose_bones, frames, bake_sample(w, frames, pose_bones), 0,
                             do_location, do_rotation, do_scale),
                  w.frame_current)

\* custom_bake(context, frames, pose_bones, do_location, do_rotation, do_scale)
custom_bake(w, frames, pose_bones, do_location, do_rotation, do_scale) ==
    IF ~do_location /\ ~do_rotation /\ ~do_scale
    THEN [w |-> w, outcome |-> "ValueError"]
    ELSE bake_end(bake_write([w |-> IF frames = <<>> THEN w ELSE frame_set(w, frames[Len(frames)]),
                              ok |-> TRUE],
                             pose_bones, frames, bake_sample(w, frames, pose_bones), 0,
                             do_location, do_rotation, do_scale),
                  w.frame_current)

-----------------------------------------------------------------------------
(* Helpers of the operators *)

\* get_space_switching_armature_object without the lookup: a new object is
\* made on every call, under the name the host finds free.
get_space_switching_armature_object_fresh(w) ==
    [w EXCEPT !.objects = @ \cup {UniqueName(w.objects, object_name)},
              !.order = (UniqueName(w.objects, object_name) :> <<>>) @@ @,
              !.activeBone = (UniqueName(w.objects, object_name) :> NoName) @@ @]

\* get_space_switching_armature_object(context): the temporary armature
\* object, created empty when there is none.
get_space_switching_armature_object(w) ==
    IF object_name \in w.objects THEN w
    ELSE [w EXCEPT !.objects = @ \cup {object_name},
                   !.order = (object_name :> <<>>) @@ @,
                   !.activeBone = (object_name :> NoName) @@ @]

\* Names of the bones of object obj.
BoneNames(w, obj) == IF obj \in DOMAIN w.order THEN Range(w.order[obj]) ELSE {}

\* temp_obj.data.edit_bones.new(desired) with head, tail and use_deform set:
\* a bone of a unique name, no parent, tag NONE, shown and not selected.
edit_bones_new(w, desired, length, restHead) ==
    LET name == UniqueName(BoneNames(w, object_name), desired)
    IN  [w |-> [w EXCEPT !.bones = (<<object_name, name>> :>
                                       NewBone(NoName, FALSE, length, restHead, "QUATERNION")) @@ @,
                         !.order[object_name] = Append(@, name)],
         name |-> name]

\* temp_obj.data.edit_bones.remove(bone): the bone goes, its children are
\* handed to its parent and are no longer connected, and a bone that is
\* removed is no longer the active one.
edit_bones_remove(w, name) ==
    LET id == <<object_name, name>>
        gone == w.bones[id]
        rest == (DOMAIN w.bones) \ {id}
    IN  [w EXCEPT !.bones = [b \in rest |->
                                IF b[1] = object_name /\ w.bones[b].parent = name
                                THEN [w.bones[b] EXCEPT !.parent = gone.parent, !.use_connect = FALSE]
                                ELSE w.bones[b]],
                  !.order[object_name] = SeqFilter(@, Range(@) \ {name}),
                  !.activeBone[object_name] = IF @ = name THEN NoName ELSE @]

\* remove_bone_curves that removes the location curves only.
remove_bone_curves_location(w, id) ==
    LET cs == Curves(w, id[1])
        keep == {c \in Range(cs) : c.bone # id[2] \/ c.channel # "location"}
    IN  IF id[1] \in DOMAIN w.fcurves
        THEN [w EXCEPT !.fcurves[id[1]] = SeqFilter(cs, keep)]
        ELSE w

\* remove_bone_curves(pose_bone): every curve whose data path starts with the
\* bone's path is removed from its object's action.
remove_bone_curves(w, id) ==
    LET cs == Curves(w, id[1])
        keep == {c \in Range(cs) : c.bone # id[2]}
    IN  IF id[1] \in DOMAIN w.fcurves
        THEN [w EXCEPT !.fcurves[id[1]] = SeqFilter(cs, keep)]
        ELSE w

\* is_constrained_to that looks at the pole fields of every constraint.
is_constrained_to_any_pole(constraint, target_pose_bone) ==
    \/ constraint.target = target_pose_bone[1] /\ constraint.subtarget = target_pose_bone[2]
    \/ /\ constraint.pole_target = target_pose_bone[1]
       /\ constraint.pole_subtarget = target_pose_bone[2]

\* is_constrained_to(constraint, target_pose_bone).  A constraint type that
\* has no target, subtarget or pole attribute holds the blank name there,
\* which is the name of no object and of no bone.
is_constrained_to(constraint, target_pose_bone) ==
    \/ constraint.target = target_pose_bone[1] /\ constraint.subtarget = target_pose_bone[2]
    \/ /\ constraint.type = "IK"
       /\ constraint.pole_target = target_pose_bone[1]
       /\ constraint.pole_subtarget = target_pose_bone[2]

\* pose_bone.constraints.new(type) with target, subtarget (and head_tail) set.
constraints_new(w, id, c) == [w EXCEPT !.bones[id].constraints = Append(@, c)]

\* constraints.remove(constraint): that one constraint leaves the stack.
RECURSIVE RemoveFirst(_, _)
RemoveFirst(s, x) ==
    IF s = <<>> THEN <<>>
    ELSE IF Head(s) = x THEN Tail(s) ELSE <<Head(s)>> \o RemoveFirst(Tail(s), x)

constraints_remove(w, id, c) == [w EXCEPT !.bones[id].constraints = RemoveFirst(@, c)]

\* for obj in original_objects: obj.data.bones.active = None
ClearActiveBones(w, original_objects) ==
    [w EXCEPT !.activeBone = [o \in DOMAIN @ |-> IF o \in original_objects THEN NoName ELSE @[o]]]

\* bpy.ops.object.mode_set(mode = m)
mode_set(w, m) == [w EXCEPT !.mode = m]

\* temp_activate that leaves the active object as it is.
temp_activate_none(w) == get_space_switching_armature_object(w)

\* Lines 283-287 (and 216-220, 610-614): the temporary object is looked up, or
\* made, and becomes the active object.
temp_activate(w) == [get_space_switching_armature_object(w) EXCEPT !.activeObj = object_name]

\* Lines 277-289 (and 210-222, 604-616): to object mode, the temporary object
\* made active, to edit mode.
EnterEditMode(w) == mode_set(temp_activate(mode_set(w, "OBJECT")), "EDIT")

\* Lines 356-363 (and 228-235, 625-632): back to object mode, the original
\* objects reselected with no active bone, to pose mode.
LeaveEditMode(w, original_objects) ==
    mode_set(ClearActiveBones(mode_set(w, "OBJECT"), original_objects), "POSE")

-----------------------------------------------------------------------------
(* _space_switch *)

\* A connected bone has a parent (the host clears use_connect when a bone
\* loses its parent), so src_pose_bone.parent of lines 315 and 428 is a bone.

\* Lines 341 and 354: the edit bone just made, e, gets a parent.
Parented(e, parent) ==
    [w |-> [e.w EXCEPT !.bones[<<object_name, e.name>>].parent = parent], name |-> e.name]

\* Lines 342-343 and 354: the copy goes under the edit bone just made, e.
CopyUnder(e, copy, connect) ==
    [w |-> [e.w EXCEPT !.bones[<<object_name, copy>>].parent = e.name,
                       !.bones[<<object_name, copy>>].use_connect = connect],
     name |-> copy]

\* Lines 337-341: the child bone made under the parent bone p.
ChildOf(p, desired) == Parented(edit_bones_new(p.w, desired, 1, -1), p.name)

\* edit_parents without the anchor of an unconnected source.
edit_parents_connected_only(c, src, dest) ==
    IF c.w.bones[src].use_connect
    THEN CopyUnder(ChildOf(edit_bones_new(c.w, parent_name(src[2]), 1, 0),
                           space_name(IF dest # NoId THEN dest[2] ELSE c.w.bones[src].parent)),
                   c.name, TRUE)
    ELSE c

\* Lines 307-354: the bones made above the copy c of one source: for a
\* connected source the chain parent -> child -> copy, the child named after
\* the destination or else after the source's parent; for an unconnected
\* source with a destination, the destination's space bone.
edit_parents(c, src, dest) ==
    IF c.w.bones[src].use_connect
    THEN CopyUnder(ChildOf(edit_bones_new(c.w, parent_name(src[2]), 1, 0),
                           space_name(IF dest # NoId THEN dest[2] ELSE c.w.bones[src].parent)),
                   c.name, TRUE)
    ELSE IF dest # NoId
    THEN CopyUnder(edit_bones_new(c.w, space_name(dest[2]), c.w.bones[dest].length, 0),
                   c.name, FALSE)
    ELSE c

\* Lines 294-354: the edit bones made for one source.
space_switch_edit_bones(w, src, dest) ==
    edit_parents(edit_bones_new(w, copy_name(src[2]), w.bones[src].length, 0), src, dest)

\* NameAppended that keeps the first name only.
NameAppendedOnce(names, e) ==
    [w |-> e.w, temp_bone_names |-> IF names = <<>> THEN <<e.name>> ELSE names]

\* Line 304: temp_bone_names.append(temp_edit_bone.name)
NameAppended(names, e) == [w |-> e.w, temp_bone_names |-> Append(names, e.name)]

\* Lines 293-354: the loop over the sources, in edit mode.
RECURSIVE space_switch_edit_loop(_, _, _, _)
space_switch_edit_loop(r, src_pose_bones, dest, i) ==
    IF i > Len(src_pose_bones) THEN r
    ELSE space_switch_edit_loop(
             NameAppended(r.temp_bone_names, space_switch_edit_bones(r.w, src_pose_bones[i], dest)),
             src_pose_bones, dest, i + 1)

\* The COPY_TRANSFORMS constraint of lines 404-406.
CopyTransformsTo(src) == NewConstraint("COPY_TRANSFORMS", src[1], src[2], 0)

\* Lines 372-385: the copy is selected and tagged and takes the source's
\* rotation mode, or quaternions for a connected source in an Euler mode.
\* With the mode the copy takes the source's rotation_axis_angle (line 385),
\* which is the rotation of its basis when the mode is AXIS_ANGLE.
TagCopy(w, src, tid) ==
    [w EXCEPT !.bones[tid].select = TRUE,
              !.bones[tid].space_switching_tag = "COPY",
              !.bones[tid].rotation_mode =
                  IF w.bones[src].use_connect
                     /\ w.bones[src].rotation_mode \notin {"QUATERNION", "AXIS_ANGLE"}
                  THEN "QUATERNION" ELSE w.bones[src].rotation_mode,
              !.bones[tid].basis.rot =
                  IF w.bones[src].rotation_mode = "AXIS_ANGLE"
                  THEN w.bones[src].basis.rot ELSE @]

\* ActivateCopy that makes no bone active.
ActivateCopyNever(w, src, temp_bone_name, src_active_pose_bone) == w

\* Lines 409-411: the copy of the active source becomes the active bone.
ActivateCopy(w, src, temp_bone_name, src_active_pose_bone) ==
    IF src = src_active_pose_bone
    THEN [w EXCEPT !.activeBone[object_name] = temp_bone_name] ELSE w

\* TagSpace without the tag: the bone is only hidden.
TagSpaceHiddenOnly(w, id) == [w EXCEPT !.bones[id].hide = TRUE]

\* Lines 417-418 and 421-422: bone.hide = True; bone.space_switching_tag = 'SPACE'
TagSpace(w, id) ==
    [w EXCEPT !.bones[id].hide = TRUE, !.bones[id].space_switching_tag = "SPACE"]

\* TempDest that stays on the copy's parent.
TempDestDirect(w, src, tid) == ParentId(w, tid)

\* Lines 414-420: temp_dest_pose_bone, the copy's parent or, for a connected
\* source, the parent of that.
TempDest(w, src, tid) ==
    IF w.bones[src].use_connect THEN ParentId(w, ParentId(w, tid)) ELSE ParentId(w, tid)

\* Lines 424-433: copy_location, aimed at the tail of the source's parent
\* (connected) or at the destination.
CopyLocationOf(w, src, dest) ==
    IF w.bones[src].use_connect
    THEN NewConstraint("COPY_LOCATION", src[1], w.bones[src].parent, 1)
    ELSE IF dest # NoId
    THEN NewConstraint("COPY_LOCATION", dest[1], dest[2], 0)
    ELSE NewConstraint("COPY_LOCATION", NoName, NoName, 0)

\* WithCopyRotation that never adds the constraint.
WithoutCopyRotation(w, id, dest) == w

\* Lines 435-439: copy_rotation, when there is a destination.
WithCopyRotation(w, id, dest) ==
    IF dest # NoId
    THEN constraints_new(w, id, NewConstraint("COPY_ROTATION", dest[1], dest[2], 0))
    ELSE w

\* Lines 413-439: the bones above a copy are hidden and tagged, and the top
\* one is constrained.
space_switch_anchors(w, src, tid, dest) ==
    IF ParentId(w, tid) = NoId THEN w
    ELSE WithCopyRotation(
             constraints_new(
                 TagSpace(IF w.bones[src].use_connect THEN TagSpace(w, ParentId(w, tid)) ELSE w,
                          TempDest(w, src, tid)),
                 TempDest(w, src, tid), CopyLocationOf(w, src, dest)),
             TempDest(w, src, tid), dest)

\* Lines 372-439: one (source, copy name) pair of the loop in pose mode.
space_switch_pose_bone(w, src, temp_bone_name, dest, src_active_pose_bone) ==
    space_switch_anchors(
        ActivateCopy(constraints_new(TagCopy(w, src, <<object_name, temp_bone_name>>),
                                     <<object_name, temp_bone_name>>, CopyTransformsTo(src)),
                     src, temp_bone_name, src_active_pose_bone),
        src, <<object_name, temp_bone_name>>, dest)

\* Lines 371-439: the loop over zip(src_pose_bones, temp_bone_names).
RECURSIVE space_switch_pose_loop(_, _, _, _, _, _)
space_switch_pose_loop(w, src_pose_bones, temp_bone_names, dest, src_active_pose_bone, i) ==
    IF i > Len(src_pose_bones) THEN w
    ELSE space_switch_pose_loop(
             space_switch_pose_bone(w, src_pose_bones[i], temp_bone_names[i], dest,
                                    src_active_pose_bone),
             src_pose_bones, temp_bone_names, dest, src_active_pose_bone, i + 1)

\* WithReverseLocation without the test of use_connect.
WithReverseLocationAlways(w, src, tid) ==
    constraints_new(w, src, NewConstraint("COPY_LOCATION", tid[1], tid[2], 0))

\* Lines 450-453: reverse_copy_location, unless the source is connected.
WithReverseLocation(w, src, tid) ==
    IF ~w.bones[src].use_connect
    THEN constraints_new(w, src, NewConstraint("COPY_LOCATION", tid[1], tid[2], 0))
    ELSE w

\* Lines 447-457: the copy's COPY_TRANSFORMS goes; the source gets COPY_LOCATION
\* (unless connected) and COPY_ROTATION targeting the copy.
space_switch_reverse(w, src, tid) ==
    constraints_new(WithReverseLocation(constraints_remove(w, tid, CopyTransformsTo(src)), src, tid),
                    src, NewConstraint("COPY_ROTATION", tid[1], tid[2], 0))

\* Lines 446-457: the loop over zip(src_pose_bones, temp_pose_bones, constraints_to_remove).
RECURSIVE space_switch_reverse_loop(_, _, _, _)
space_switch_reverse_loop(w, src_pose_bones, temp_pose_bones, i) ==
    IF i > Len(src_pose_bones) THEN w
    ELSE space_switch_reverse_loop(space_switch_reverse(w, src_pose_bones[i], temp_pose_bones[i]),
                                   src_pose_bones, temp_pose_bones, i + 1)

\* WorkingSet without the removal of the destination.
WorkingSetKept(src_pose_bones, dest_pose_bone) == src_pose_bones

\* Lines 256-260: src_pose_bones.remove(dest_pose_bone), ignoring its absence.
WorkingSet(src_pose_bones, dest_pose_bone) == RemoveFirst(src_pose_bones, dest_pose_bone)

\* Lines 268-275: the selection is cleared and the sources are hidden.
space_switch_hide(w, src_pose_bones) ==
    [w EXCEPT !.bones = [id \in DOMAIN @ |->
        [@[id] EXCEPT !.select = IF id \in Range(selected_pose_bones(w)) THEN FALSE ELSE @,
                      !.hide = IF id \in Range(src_pose_bones) THEN TRUE ELSE @]]]

\* What _space_switch hands back: the world it leaves, how it ended, its
\* working set and the copies it made.
Switched(w, outcome, sources, copies) ==
    [w |-> w, outcome |-> outcome, sources |-> sources, copies |-> copies]

\* Lines 443-457: after the bake.  temp_pose_bones and constraints_to_remove
\* grow together in the loop of lines 371-407, so one length stands for both.
space_switch_end(baked, src_pose_bones, temp_pose_bones) ==
    IF baked.outcome # "FINISHED"
    THEN Switched(baked.w, baked.outcome, src_pose_bones, temp_pose_bones)
    ELSE IF Len(src_pose_bones) # Len(temp_pose_bones)
    THEN Switched(baked.w, "reverse constraints list mismatch", src_pose_bones, temp_pose_bones)
    ELSE Switched(space_switch_reverse_loop(baked.w, src_pose_bones, temp_pose_bones, 1),
                  "FINISHED", src_pose_bones, temp_pose_bones)

\* space_switch_bake with the loop of lines 446-457 run before the bake.
space_switch_bake_reversed(posed, frames, src_pose_bones, temp_pose_bones) ==
    Switched(custom_bake(space_switch_reverse_loop(posed, src_pose_bones, temp_pose_bones, 1),
                         frames, temp_pose_bones, TRUE, TRUE, TRUE).w,
             "FINISHED", src_pose_bones, temp_pose_bones)

\* Lines 365-441: the copies are posed and baked.
space_switch_bake(posed, frames, src_pose_bones, temp_pose_bones) ==
    space_switch_end(custom_bake(posed, frames, temp_pose_bones, TRUE, TRUE, TRUE),
                     src_pose_bones, temp_pose_bones)

\* Lines 365-457: in pose mode again, in world w: the test of the two lists,
\* the loop over them, the bake and the reverse constraints.
space_switch_posed(w, temp_bone_names, frames, src_pose_bones, dest, src_active_pose_bone) ==
    IF Len(src_pose_bones) # Len(temp_bone_names)
    THEN Switched(w, "edit bones list mismatch", src_pose_bones,
                  [i \in DOMAIN temp_bone_names |-> <<object_name, temp_bone_names[i]>>])
    ELSE space_switch_bake(
             space_switch_pose_loop(w, src_pose_bones, temp_bone_names, dest,
                                    src_active_pose_bone, 1),
             frames, src_pose_bones,
             [i \in DOMAIN temp_bone_names |-> <<object_name, temp_bone_names[i]>>])

\* Lines 356-457: out of edit mode and on in pose mode.
space_switch_pose(edited, frames, src_pose_bones, dest, src_active_pose_bone, original_objects) ==
    space_switch_posed(LeaveEditMode(edited.w, original_objects), edited.temp_bone_names,
                       frames, src_pose_bones, dest, src_active_pose_bone)

\* Lines 267-457: the switch of a working set that is not empty.
space_switch_run(w, src_pose_bones, dest, frames) ==
    space_switch_pose(
        space_switch_edit_loop([w |-> EnterEditMode(space_switch_hide(w, src_pose_bones)),
                                temp_bone_names |-> <<>>],
                               src_pose_bones, dest, 1),
        frames, src_pose_bones, dest, active_pose_bone(w), w.objects)

\* _space_switch(context, src_pose_bones, dest_pose_bone, frames)
_space_switch(w, selected, dest_pose_bone, frames) ==
    IF Len(WorkingSet(selected, dest_pose_bone)) < 1
    THEN Switched(w, "FINISHED", <<>>, <<>>)
    ELSE space_switch_run(w, WorkingSet(selected, dest_pose_bone), dest_pose_bone, frames)

-----------------------------------------------------------------------------
(* _remove_bones_common *)

\* Lines 165-174 and 195-203: the pose bones of every armature object that
\* have a constraint aimed at temp_pose_bone, in iteration order.
ConstrainedTo(w, temp_pose_bone) ==
    SeqFilter(AllBoneIds(w), {id \in DOMAIN w.bones :
        \E i \in DOMAIN w.bones[id].constraints :
            is_constrained_to(w.bones[id].constraints[i], temp_pose_bone)})

\* Lines 162-174: pose_bones_to_bake.
pose_bones_to_bake(w) ==
    Flatten([i \in DOMAIN selected_pose_bones(w) |-> ConstrainedTo(w, selected_pose_bones(w)[i])])

\* DropConstraintsTo that stops after the first constraint it removed.
RECURSIVE DropFirstConstraintTo(_, _)
DropFirstConstraintTo(cons, temp_pose_bone) ==
    IF cons = <<>> THEN <<>>
    ELSE IF is_constrained_to(Head(cons), temp_pose_bone)
         THEN Tail(cons)
         ELSE <<Head(cons)>> \o DropFirstConstraintTo(Tail(cons), temp_pose_bone)

\* Lines 198-200: every constraint of the stack aimed at temp_pose_bone is
\* removed; the host's iterator has moved on before the loop body removes the
\* constraint it was handed, so no constraint of the stack is skipped.
RECURSIVE DropConstraintsTo(_, _)
DropConstraintsTo(cons, temp_pose_bone) ==
    IF cons = <<>> THEN <<>>
    ELSE IF is_constrained_to(Head(cons), temp_pose_bone)
         THEN DropConstraintsTo(Tail(cons), temp_pose_bone)
         ELSE <<Head(cons)>> \o DropConstraintsTo(Tail(cons), temp_pose_bone)

\* names_to_remove that leaves the grandparent where it is.
names_to_remove_near(w, temp_pose_bone) ==
    <<temp_pose_bone[2]>>
    \o (IF ParentId(w, temp_pose_bone) = NoId THEN <<>>
        ELSE <<ParentId(w, temp_pose_bone)[2]>>)

\* Lines 184-189: the names collected for one selected bone: its own, its
\* parent's and its grandparent's.
names_to_remove(w, temp_pose_bone) ==
    <<temp_pose_bone[2]>>
    \o (IF ParentId(w, temp_pose_bone) = NoId THEN <<>>
        ELSE <<ParentId(w, temp_pose_bone)[2]>>
             \o (IF ParentId(w, ParentId(w, temp_pose_bone)) = NoId THEN <<>>
                 ELSE <<ParentId(w, ParentId(w, temp_pose_bone))[2]>>))

\* Lines 195-204: the constraints aimed at temp_pose_bone leave the bones that
\* were found constrained to it, and those bones are shown again.
Released(w, temp_pose_bone, found) ==
    [w EXCEPT !.bones = [id \in DOMAIN @ |->
        IF id \in found
        THEN [@[id] EXCEPT !.constraints = DropConstraintsTo(@, temp_pose_bone), !.hide = FALSE]
        ELSE @[id]]]

\* Lines 183-208: one selected bone of the collecting loop, `found` being the
\* bones constrained to it.
Collected(r, temp_pose_bone, original_active_pose_bone, found) ==
    [w |-> Released(remove_bone_curves(r.w, temp_pose_bone), temp_pose_bone, Range(found)),
     names_of_bones_to_remove |->
         r.names_of_bones_to_remove \o names_to_remove(r.w, temp_pose_bone),
     src_bones_to_select |-> r.src_bones_to_select \o found,
     src_bone_to_activate |->
         IF temp_pose_bone = original_active_pose_bone /\ found # <<>>
         THEN found[Len(found)] ELSE r.src_bone_to_activate]

remove_collect(r, temp_pose_bone, original_active_pose_bone) ==
    Collected(r, temp_pose_bone, original_active_pose_bone, ConstrainedTo(r.w, temp_pose_bone))

RECURSIVE remove_collect_loop(_, _, _, _)
remove_collect_loop(r, selected, original_active_pose_bone, i) ==
    IF i > Len(selected) THEN r
    ELSE remove_collect_loop(remove_collect(r, selected[i], original_active_pose_bone),
                             selected, original_active_pose_bone, i + 1)

\* Lines 224-226: the bones are looked up by name and removed; a name that is
\* no longer there raises KeyError.
RECURSIVE remove_edit_loop(_, _, _)
remove_edit_loop(r, names, i) ==
    IF ~r.ok \/ i > Len(names) THEN r
    ELSE IF <<object_name, names[i]>> \notin DOMAIN r.w.bones
         THEN [w |-> r.w, ok |-> FALSE]
         ELSE remove_edit_loop([w |-> edit_bones_remove(r.w, names[i]), ok |-> TRUE],
                               names, i + 1)

\* Lines 238-239: the bones that were constrained are selected, by name.
RECURSIVE remove_select_loop(_, _, _)
remove_select_loop(r, src_bones_to_select, i) ==
    IF ~r.ok \/ i > Len(src_bones_to_select) THEN r
    ELSE IF src_bones_to_select[i] \notin DOMAIN r.w.bones
         THEN [w |-> r.w, ok |-> FALSE]
         ELSE remove_select_loop(
                  [w |-> [r.w EXCEPT !.bones[src_bones_to_select[i]].select = TRUE], ok |-> TRUE],
                  src_bones_to_select, i + 1)

\* Lines 242-246: the bone constrained to the bone that was active becomes active.
remove_activate(w, src_bone_to_activate) ==
    IF src_bone_to_activate = NoId THEN [w |-> w, ok |-> TRUE]
    ELSE IF src_bone_to_activate \notin DOMAIN w.bones THEN [w |-> w, ok |-> FALSE]
    ELSE [w |-> [w EXCEPT !.activeObj = src_bone_to_activate[1],
                          !.activeBone[src_bone_to_activate[1]] = src_bone_to_activate[2]],
          ok |-> TRUE]

\* What _remove_bones_common hands back: the world it leaves, how it ended,
\* the bones it baked, the names it removed and the bones it found constrained.
Removed(w, outcome, baked, names, found) ==
    [w |-> w, outcome |-> outcome, baked |-> baked, names |-> names, found |-> found]

\* Lines 238-246, r being the outcome of the lookups of lines 239 and 244.
remove_end(r, to_bake, collected) ==
    Removed(r.w, IF r.ok THEN "FINISHED" ELSE "KeyError", to_bake,
            collected.names_of_bones_to_remove, collected.src_bones_to_select)

\* Lines 238-246: the source bones are selected and one is made active.
remove_select(r, to_bake, collected) ==
    IF ~r.ok THEN remove_end(r, to_bake, collected)
    ELSE remove_end(remove_activate(r.w, collected.src_bone_to_activate), to_bake, collected)

\* Lines 228-246: out of edit mode, r being the outcome of the removals.
remove_pose(r, to_bake, collected, original_objects) ==
    IF ~r.ok THEN remove_end(r, to_bake, collected)
    ELSE remove_select(remove_select_loop([w |-> LeaveEditMode(r.w, original_objects), ok |-> TRUE],
                                          collected.src_bones_to_select, 1),
                       to_bake, collected)

\* Lines 210-246: into edit mode and the collected names removed.
remove_edit(collected, to_bake, original_objects) ==
    remove_pose(remove_edit_loop([w |-> EnterEditMode(collected.w), ok |-> TRUE],
                                 collected.names_of_bones_to_remove, 1),
                to_bake, collected, original_objects)

\* Lines 179-246, after the bake of lines 161-177.
remove_after_bake(baked, to_bake, selected, original_active_pose_bone, original_objects) ==
    IF baked.outcome # "FINISHED" THEN Removed(baked.w, baked.outcome, to_bake, <<>>, <<>>)
    ELSE remove_edit(remove_collect_loop([w |-> baked.w, names_of_bones_to_remove |-> <<>>,
                                          src_bones_to_select |-> <<>>,
                                          src_bone_to_activate |-> NoId],
                                         selected, original_active_pose_bone, 1),
                     to_bake, original_objects)

\* remove_bake that reports an error when there is nothing to bake.
remove_bake_required(w, to_bake, frames) ==
    IF Len(to_bake) > 0
    THEN custom_bake(w, frames, to_bake, TRUE, TRUE, TRUE)
    ELSE [w |-> w, outcome |-> "error"]

\* Lines 161-177: the bake of the bones constrained to the selection.
remove_bake(w, to_bake, frames) ==
    IF Len(to_bake) > 0
    THEN custom_bake(w, frames, to_bake, TRUE, TRUE, TRUE)
    ELSE [w |-> w, outcome |-> "FINISHED"]

\* _remove_bones_common that removes first (lines 179-246) and bakes what is
\* left of pose_bones_to_bake afterwards.
remove_then_bake(r, frames) ==
    Removed(custom_bake(r.w, frames, SeqFilter(r.baked, DOMAIN r.w.bones), TRUE, TRUE, TRUE).w,
            r.outcome, r.baked, r.names, r.found)

_remove_bones_common_late(w, do_apply, frames) ==
    IF do_apply /\ Len(pose_bones_to_bake(w)) > 0
    THEN remove_then_bake(remove_after_bake([w |-> w, outcome |-> "FINISHED"], pose_bones_to_bake(w),
                                            selected_pose_bones(w), active_pose_bone(w), w.objects),
                          frames)
    ELSE remove_after_bake([w |-> w, outcome |-> "FINISHED"], <<>>,
                           selected_pose_bones(w), active_pose_bone(w), w.objects)

\* _remove_bones_common(context, do_apply, frames)
_remove_bones_common(w, do_apply, frames) ==
    remove_after_bake(remove_bake(w, IF do_apply THEN pose_bones_to_bake(w) ELSE <<>>, frames),
                      IF do_apply THEN pose_bones_to_bake(w) ELSE <<>>,
                      selected_pose_bones(w), active_pose_bone(w), w.objects)

-----------------------------------------------------------------------------
(* The operators: poll and execute *)

Selected == selected_pose_bones(World)

\* SPACE_SWITCHING_OT_bake_pose.poll
bake_pose_poll(w) ==
    /\ w.mode = "POSE"
    /\ Len(selected_pose_bones(w)) > 0
    /\ w.activeObj \in DOMAIN w.fcurves

\* SPACE_SWITCHING_OT_add_empty.poll
add_empty_poll(w) == w.mode = "POSE"

\* delete_bone.poll that is content with one tagged bone in the selection.
delete_bone_poll_any(w) ==
    /\ w.mode = "POSE"
    /\ \E i \in DOMAIN selected_pose_bones(w) :
          w.bones[selected_pose_bones(w)[i]].space_switching_tag # "NONE"

\* SPACE_SWITCHING_OT_delete_bone.poll
delete_bone_poll(w) ==
    LET sel == selected_pose_bones(w)
    IN  /\ w.mode = "POSE"
        /\ \A i \in DOMAIN sel : w.bones[sel[i]].space_switching_tag # "NONE"
        /\ Len(sel) > 0

\* SPACE_SWITCHING_OT_apply_bone.poll
apply_bone_poll(w) ==
    LET sel == selected_pose_bones(w)
    IN  /\ w.mode = "POSE"
        /\ \A i \in DOMAIN sel : w.bones[sel[i]].space_switching_tag = "COPY"
        /\ Len(sel) > 0

\* SPACE_SWITCHING_OT_selection_to_world.poll
selection_to_world_poll(w) ==
    LET sel == selected_pose_bones(w)
    IN  /\ w.mode = "POSE"
        /\ \A i \in DOMAIN sel : Len(w.bones[sel[i]].constraints) = 0
        /\ Len(sel) > 0

\* selection_to_active.poll with the test of selection_to_world.poll.
selection_to_active_poll_one(w) ==
    /\ w.mode = "POSE"
    /\ \A i \in DOMAIN selected_pose_bones(w) :
          Len(w.bones[selected_pose_bones(w)[i]].constraints) = 0
    /\ Len(selected_pose_bones(w)) > 0

\* SPACE_SWITCHING_OT_selection_to_active.poll
selection_to_active_poll(w) ==
    LET sel == selected_pose_bones(w)
    IN  /\ w.mode = "POSE"
        /\ \A i \in DOMAIN sel : Len(w.bones[sel[i]].constraints) = 0
        /\ Len(sel) > 1

\* SPACE_SWITCHING_OT_selection_to_target.poll
selection_to_target_poll(w) ==
    LET sel == selected_pose_bones(w)
    IN  /\ w.mode = "POSE"
        /\ \A i \in DOMAIN sel : Len(w.bones[sel[i]].constraints) = 0
        /\ Len(sel) > 0

\* SPACE_SWITCHING_OT_build_two_bone_ik.poll
build_two_bone_ik_poll(w) ==
    LET sel == selected_pose_bones(w)
    IN  /\ w.mode = "POSE"
        /\ \A i \in DOMAIN sel : Len(w.bones[sel[i]].constraints) = 0
        /\ Len(sel) = 1

\* Lines 601-602 (and 933-934): the selection is cleared.
ClearSelection(w) ==
    [w EXCEPT !.bones = [id \in DOMAIN @ |->
        [@[id] EXCEPT !.select = IF id \in Range(selected_pose_bones(w)) THEN FALSE ELSE @]]]

\* Lines 625-637: the bone just made, e, is selected, tagged EMPTY and active.
EmptyMade(e, original_objects) ==
    [w |-> [LeaveEditMode(e.w, original_objects) EXCEPT
               !.bones[<<object_name, e.name>>].select = TRUE,
               !.bones[<<object_name, e.name>>].space_switching_tag = "EMPTY",
               !.activeBone[object_name] = e.name],
     outcome |-> "FINISHED"]

\* SPACE_SWITCHING_OT_add_empty.execute: one bone at the 3D cursor (the origin
\* here), tagged EMPTY, selected and active.
add_empty_execute(w, length) ==
    EmptyMade(edit_bones_new(EnterEditMode(ClearSelection(w)), empty_name, length, 0), w.objects)

\* Lines 971-976: a bone made by the IK operator is selected and tagged EMPTY.
TagEmpty(w, id) ==
    [w EXCEPT !.bones[id].select = TRUE, !.bones[id].space_switching_tag = "EMPTY"]

\* Lines 995-1001: the IK constraint of the source.
IKConstraint(target, pole) ==
    [NewConstraint("IK", target[1], target[2], 0)
        EXCEPT !.pole_target = pole[1], !.pole_subtarget = pole[2]]

\* Lines 992-1003: after the bake the two COPY_LOCATION constraints go and the
\* source gets its IK constraint.
ik_end(baked, src, target, pole) ==
    IF baked.outcome # "FINISHED" THEN [w |-> baked.w, outcome |-> baked.outcome]
    ELSE [w |-> constraints_new(
                    constraints_remove(
                        constraints_remove(baked.w, target,
                            NewConstraint("COPY_LOCATION", src[1], src[2], 1)),
                        pole, NewConstraint("COPY_LOCATION", src[1], src[2], 0)),
                    src, IKConstraint(target, pole)),
          outcome |-> "FINISHED"]

\* Lines 978-990: the two bones are held at the source's tail and head and
\* their location is baked.  Without an active bone, src_pose_bone.id_data of
\* line 980 raises AttributeError once the first constraint is made.
ik_constrain(w, src, target, pole, frames) ==
    IF src = NoId
    THEN [w |-> constraints_new(w, target, NewConstraint("COPY_LOCATION", NoName, NoName, 0)),
          outcome |-> "AttributeError"]
    ELSE ik_end(custom_bake(
                    constraints_new(
                        constraints_new(w, target, NewConstraint("COPY_LOCATION", src[1], src[2], 1)),
                        pole, NewConstraint("COPY_LOCATION", src[1], src[2], 0)),
                    frames, <<target, pole>>, TRUE, FALSE, FALSE),
                src, target, pole)

\* Lines 962-976: out of edit mode, the two bones selected and tagged.
ik_pose(e2, target_name, src, frames, original_objects) ==
    ik_constrain(TagEmpty(TagEmpty(LeaveEditMode(e2.w, original_objects),
                                   <<object_name, target_name>>),
                          <<object_name, e2.name>>),
                 src, <<object_name, target_name>>, <<object_name, e2.name>>, frames)

\* Lines 956-960: the pole target bone is made after the target bone e1.
ik_pole(e1, length, src, frames, original_objects) ==
    ik_pose(edit_bones_new(e1.w, "ik_pole_target", length, 0), e1.name, src, frames,
            original_objects)

\* SPACE_SWITCHING_OT_build_two_bone_ik.execute: the target and pole target
\* bones are made and tagged, located at the active bone's tail and head by
\* a bake of their location, and the active bone gets the IK constraint.
build_two_bone_ik_execute(w, length, frames) ==
    ik_pole(edit_bones_new(EnterEditMode(ClearSelection(w)), "ik_target", length, 0),
            length, active_pose_bone(w), frames, w.objects)

\* context.scene.objects.get(name) is an armature object.
IsArmature(w, name) == name \in w.objects

\* selection_to_target.execute without the test of the bone name.
selection_to_target_execute_unchecked(w, target, subtarget, frames) ==
    IF target = NoName \/ ~IsArmature(w, target)
    THEN Switched(w, "error", <<>>, <<>>)
    ELSE IF <<target, subtarget>> \notin DOMAIN w.bones
    THEN Switched(w, "KeyError", <<>>, <<>>)
    ELSE _space_switch(w, selected_pose_bones(w), <<target, subtarget>>, frames)

\* SPACE_SWITCHING_OT_selection_to_target.execute: "error" stands for the
\* report of lines 837-848, KeyError for a bone name the target does not have.
selection_to_target_execute(w, target, subtarget, frames) ==
    IF target = NoName \/ subtarget = NoName \/ ~IsArmature(w, target)
    THEN Switched(w, "error", <<>>, <<>>)
    ELSE IF <<target, subtarget>> \notin DOMAIN w.bones
    THEN Switched(w, "KeyError", <<>>, <<>>)
    ELSE _space_switch(w, selected_pose_bones(w), <<target, subtarget>>, frames)

-----------------------------------------------------------------------------
(* SPACE_SWITCHING_OT_make_local_armature *)

\* SPACE_SWITCHING_OT_make_local_armature.poll
make_local_armature_poll(w) == w.mode = "OBJECT" /\ w.activeObj \in w.objects

\* The constraint types with a target attribute, among the types a bone of
\* the model may hold.
TargetTypes == {"COPY_TRANSFORMS", "COPY_LOCATION", "COPY_ROTATION", "IK"}

\* Lines 1049-1060: one bone of the scan for the old duplicate.  r.ok is
\* false once an error was reported or raised; constraint.target (lines 1056
\* and 1057) raises AttributeError for a constraint type without a target.
local_scan_bone(cons, id, r) ==
    IF Len(cons) > 1 THEN [r EXCEPT !.ok = FALSE]
    ELSE IF Len(cons) = 0 THEN r
    ELSE IF cons[1].type \notin TargetTypes
    THEN [r EXCEPT !.ok = FALSE, !.outcome = "AttributeError"]
    ELSE IF r.old_object = NoName
    THEN [r EXCEPT !.old_object = cons[1].target, !.found = Append(@, id)]
    ELSE IF r.old_object # cons[1].target THEN [r EXCEPT !.ok = FALSE]
    ELSE [r EXCEPT !.found = Append(@, id)]

\* Lines 1047-1060: the scan of the source's bones.
RECURSIVE local_scan(_, _, _, _)
local_scan(w, ids, i, r) ==
    IF i > Len(ids) \/ ~r.ok THEN r
    ELSE local_scan(w, ids, i + 1, local_scan_bone(w.bones[ids[i]].constraints, ids[i], r))

\* A constraint once object obj is gone: the host clears the references to it.
Untargeted(c, obj) ==
    [c EXCEPT !.target = IF @ = obj THEN NoName ELSE @,
              !.pole_target = IF @ = obj THEN NoName ELSE @]

\* bpy.ops.object.delete({"selected_objects": [obj]})
object_delete(w, obj) ==
    [w EXCEPT !.objects = @ \ {obj},
              !.bones = [id \in {x \in DOMAIN w.bones : x[1] # obj} |->
                            [w.bones[id] EXCEPT !.constraints =
                                [k \in DOMAIN w.bones[id].constraints |->
                                    Untargeted(w.bones[id].constraints[k], obj)]]],
              !.order = [o \in (DOMAIN w.order) \ {obj} |-> w.order[o]],
              !.fcurves = [o \in (DOMAIN w.fcurves) \ {obj} |-> w.fcurves[o]],
              !.activeBone = [o \in (DOMAIN w.activeBone) \ {obj} |-> w.activeBone[o]],
              !.activeObj = IF @ = obj THEN NoName ELSE @,
              !.hide_viewport = @ \ {obj}]

\* bpy.ops.object.duplicate of src, make_local and the renaming to `name`
\* (lines 1077-1091): a copy of the object, its bones and its action, which
\* becomes the active object.  Whether the host duplicates the object is not
\* the add-on's to decide: when it does not (duplicated is false) nothing is
\* added and the active object stays what it was.
object_duplicate(w, src, name, duplicated) ==
    IF ~duplicated THEN w ELSE
    [w EXCEPT !.objects = @ \cup {name},
              !.bones = [id \in (DOMAIN w.bones) \cup {<<name, n>> : n \in Range(w.order[src])} |->
                            IF id[1] = name THEN w.bones[<<src, id[2]>>] ELSE w.bones[id]],
              !.order = (name :> w.order[src]) @@ @,
              !.fcurves = IF src \in DOMAIN w.fcurves THEN (name :> w.fcurves[src]) @@ @ ELSE @,
              !.activeBone = (name :> w.activeBone[src]) @@ @,
              !.activeObj = name]

\* Lines 1070-1072: the constraints found by the scan are removed.
RECURSIVE local_unconstrain(_, _, _)
local_unconstrain(w, found, i) ==
    IF i > Len(found) THEN w
    ELSE local_unconstrain(constraints_remove(w, found[i], w.bones[found[i]].constraints[1]),
                           found, i + 1)

\* Lines 1092-1097 and 1108-1112: every bone of obj gets a COPY_TRANSFORMS to
\* the bone of its name in target.
local_constrain(w, obj, target) ==
    [w EXCEPT !.bones = [id \in DOMAIN w.bones |->
        IF id[1] = obj
        THEN [w.bones[id] EXCEPT !.constraints =
                 Append(@, NewConstraint("COPY_TRANSFORMS", target, id[2], 0))]
        ELSE w.bones[id]]]

\* Lines 1105-1106: the constraints of lines 1092-1097 are removed.
local_release(w, obj, target) ==
    [w EXCEPT !.bones = [id \in DOMAIN w.bones |->
        IF id[1] = obj
        THEN [w.bones[id] EXCEPT !.constraints =
                 RemoveFirst(@, NewConstraint("COPY_TRANSFORMS", target, id[2], 0))]
        ELSE w.bones[id]]]

\* The result of the operator.
Localized(w, outcome, old_object, dest_object) ==
    [w |-> w, outcome |-> outcome, old_object |-> old_object, dest_object |-> dest_object]

\* Lines 1103-1117, after the bake of the duplicate.
local_end(baked, src, old_object, dest) ==
    IF baked.outcome # "FINISHED" THEN Localized(baked.w, baked.outcome, old_object, dest)
    ELSE Localized([local_constrain(local_release([baked.w EXCEPT !.mode = "OBJECT"], dest, src),
                                    src, dest)
                       EXCEPT !.hide_viewport = @ \cup {src}],
                   "FINISHED", old_object, dest)

\* Lines 1092-1103: the duplicate is constrained to the source and baked.
local_bake(w, src, old_object, dest, frames) ==
    local_end(custom_bake([local_constrain(w, dest, src) EXCEPT !.mode = "POSE"],
                          frames, BoneIds(w, dest), TRUE, TRUE, TRUE),
              src, old_object, dest)

\* Lines 1073-1091: the source is released and duplicated.  When the active
\* object is still the source after the duplication (line 1081) the error is
\* reported and the operator ends there.
local_duplicate(w, src, old_object, found, frames, duplicated) ==
    IF object_duplicate(local_unconstrain(w, found, 1), src,
                        UniqueName(w.objects, local_armature_object_name(src)),
                        duplicated).activeObj = src
    THEN Localized(object_duplicate(local_unconstrain(w, found, 1), src,
                                    UniqueName(w.objects, local_armature_object_name(src)),
                                    duplicated),
                   "error", old_object, NoName)
    ELSE local_bake(object_duplicate(local_unconstrain(w, found, 1), src,
                                     UniqueName(w.objects, local_armature_object_name(src)),
                                     duplicated),
                    src, old_object, UniqueName(w.objects, local_armature_object_name(src)),
                    frames)

\* Lines 1068-1070, after the bake of the source: the old duplicate is deleted.
local_replace(baked, src, r, frames, duplicated) ==
    IF baked.outcome # "FINISHED" THEN Localized(baked.w, baked.outcome, r.old_object, NoName)
    ELSE local_duplicate(object_delete([baked.w EXCEPT !.mode = "OBJECT"], r.old_object),
                         src, r.old_object, r.found, frames, duplicated)

\* Lines 1062-1068: with an old duplicate the source is baked first.
local_scanned(w, src, r, frames, duplicated) ==
    IF ~r.ok THEN Localized(w, r.outcome, NoName, NoName)
    ELSE IF r.old_object # NoName
    THEN local_replace(custom_bake([w EXCEPT !.mode = "POSE"], frames, BoneIds(w, src),
                                   TRUE, TRUE, TRUE),
                       src, r, frames, duplicated)
    ELSE local_duplicate(w, src, NoName, r.found, frames, duplicated)

\* SPACE_SWITCHING_OT_make_local_armature.execute
make_local_armature_execute(w, frames, duplicated) ==
    local_scanned([w EXCEPT !.hide_viewport = @ \ {w.activeObj}], w.activeObj,
                  local_scan(w, BoneIds(w, w.activeObj), 1,
                             [ok |-> TRUE, outcome |-> "error", old_object |-> NoName,
                              found |-> <<>>]),
                  frames, duplicated)

-----------------------------------------------------------------------------
(* Actions: the user's steps and the operators *)

\* range(frame_start, frame_end + 1) for the frames the dialogs may hold.
Frames == {FrameRange(a, MaxFrame) : a \in 1..MaxFrame}
FullRange == {FrameRange(1, MaxFrame)}

\* The channel choices of the Bake Pose dialog.
ChannelChoices == SUBSET {"location", "rotation", "scale"}

VisibleBones == {id \in DOMAIN bones : ~bones[id].hide}

TempCount(w) == Cardinality(BoneNames(w, object_name))

\* A step that left the world as it was (an operator refused by its poll, or
\* stopped by a check before it did anything) is not followed further: the
\* session goes on from the state before it.
Ready == last.changed

\* The user may run one more operator in this session.
CanRun == Ready /\ runs < MaxRuns

\* The step to world w with journal entry j.
Step(w, j) ==
    /\ objects' = w.objects
    /\ bones' = w.bones
    /\ order' = w.order
    /\ fcurves' = w.fcurves
    /\ frame_current' = w.frame_current
    /\ mode' = w.mode
    /\ activeObj' = w.activeObj
    /\ activeBone' = w.activeBone
    /\ hide_viewport' = w.hide_viewport
    /\ task' = task
    /\ last' = [j EXCEPT !.changed = (w # World), !.after = last.op]
    /\ runs' = IF j.outcome \in {"unavailable", "user"} THEN runs ELSE runs + 1

\* The journal entry of an operator invoked now.
Invoked(op, outcome) ==
    [Journal(op, outcome) EXCEPT !.selected = Selected, !.active = active_pose_bone(World)]

\* The user selects up to MaxSelect shown bones in pose mode; act, when given,
\* becomes the active bone (and its object the active object).  Two
\* selections in a row come to the second one.
Select ==
    /\ Ready
    /\ mode = "POSE"
    /\ last.op # "select"
    /\ \E sel \in {x \in SUBSET VisibleBones : Cardinality(x) <= MaxSelect} :
       \E act \in sel \cup {NoId} :
           Step([World EXCEPT
                    !.bones = [id \in DOMAIN bones |->
                                  [bones[id] EXCEPT !.select = IF bones[id].hide THEN @ ELSE id \in sel]],
                    !.activeObj = IF act = NoId THEN @ ELSE act[1],
                    !.activeBone = IF act = NoId THEN @ ELSE [@ EXCEPT ![act[1]] = act[2]]],
                Journal("select", "user"))

\* The user clears the constraints of a bone of the source armature (the
\* host's Clear Pose Constraints), which is one more operator of the session.
UserClearConstraints ==
    \E id \in DOMAIN bones :
        /\ CanRun
        /\ mode = "POSE"
        /\ id[1] = RigObj
        /\ bones[id].constraints # <<>>
        /\ Step([World EXCEPT !.bones[id].constraints = <<>>],
                Journal("constraints_clear", "FINISHED"))

\* The step of an operator that ran custom_bake on the selection with result r.
BakeStep(r, j) == Step(r.w, [j EXCEPT !.outcome = r.outcome, !.baked = j.selected])

\* SPACE_SWITCHING_OT_bake_pose with frames from F and channels from C.
BakePoseOp(F, C) ==
    \E frames \in F : \E channels \in C :
        IF bake_pose_poll(World)
        THEN CanRun /\ BakeStep(custom_bake(World, frames, Selected, "location" \in channels,
                                  "rotation" \in channels, "scale" \in channels),
                      [Invoked("bake_pose", "unavailable") EXCEPT
                          !.frames = frames, !.channels = channels])
        ELSE Ready /\ Step(World, [Invoked("bake_pose", "unavailable") EXCEPT
                             !.frames = frames, !.channels = channels])

\* The step of an operator that made bones with result r.
MadeStep(r, j) ==
    /\ TempCount(r.w) <= MaxTempBones
    /\ Step(r.w, [j EXCEPT !.outcome = r.outcome])

\* SPACE_SWITCHING_OT_add_empty
AddEmpty ==
    IF add_empty_poll(World)
    THEN CanRun /\ MadeStep(add_empty_execute(World, 1), Invoked("add_empty", "unavailable"))
    ELSE Ready /\ Step(World, Invoked("add_empty", "unavailable"))

\* The step of an operator that ran _remove_bones_common with result r.
RemoveStep(r, j) ==
    Step(r.w, [j EXCEPT !.outcome = r.outcome, !.baked = r.baked, !.found = r.found,
                        !.names = r.names])

\* SPACE_SWITCHING_OT_delete_bone
DeleteBone ==
    IF delete_bone_poll(World)
    THEN CanRun /\ RemoveStep(_remove_bones_common(World, FALSE, <<>>), Invoked("delete_bone", "unavailable"))
    ELSE Ready /\ Step(World, Invoked("delete_bone", "unavailable"))

\* SPACE_SWITCHING_OT_apply_bone with frames from F.
ApplyBoneOp(F) ==
    \E frames \in F :
        IF apply_bone_poll(World)
        THEN CanRun /\ RemoveStep(_remove_bones_common(World, TRUE, frames),
                        [Invoked("apply_bone", "unavailable") EXCEPT !.frames = frames])
        ELSE Ready /\ Step(World, [Invoked("apply_bone", "unavailable") EXCEPT !.frames = frames])

\* The step of a space switch that was started with result r.
SwitchStep(r, j) ==
    /\ TempCount(r.w) <= MaxTempBones
    /\ Step(r.w, [j EXCEPT !.outcome = r.outcome, !.sources = r.sources, !.copies = r.copies])

\* The pose of each of the bones on each of the frames.
Motion(w, pose_bones, frames) ==
    [i \in DOMAIN pose_bones |-> [k \in DOMAIN frames |-> VisualPose(w, pose_bones[i], frames[k])]]

\* SPACE_SWITCHING_OT_selection_to_world with frames from F.
SelectionToWorldOp(F) ==
    \E frames \in F :
        IF selection_to_world_poll(World)
        THEN CanRun /\ SwitchStep(_space_switch(World, Selected, NoId, frames),
                        [Invoked("selection_to_world", "unavailable") EXCEPT
                            !.frames = frames, !.motion = Motion(World, Selected, frames)])
        ELSE Ready /\ Step(World, [Invoked("selection_to_world", "unavailable") EXCEPT !.frames = frames])

\* SPACE_SWITCHING_OT_selection_to_active with frames from F.
SelectionToActiveOp(F) ==
    \E frames \in F :
        IF selection_to_active_poll(World)
        THEN CanRun /\ SwitchStep(_space_switch(World, Selected, active_pose_bone(World), frames),
                        [Invoked("selection_to_active", "unavailable") EXCEPT
                            !.frames = frames, !.dest = active_pose_bone(World)])
        ELSE Ready /\ Step(World, [Invoked("selection_to_active", "unavailable") EXCEPT
                             !.frames = frames, !.dest = active_pose_bone(World)])

\* What the Switch to Target dialog may hold: a bone of an armature of the
\* scene, or a blank target, a blank bone, an object that is no armature, a
\* bone name the target does not have.
TargetChoices ==
    (DOMAIN bones)
    \cup {<<NoName, "Root">>, <<RigObj, NoName>>, <<"Camera", "Root">>, <<RigObj, "Missing">>}

\* SPACE_SWITCHING_OT_selection_to_target with frames from F.
SelectionToTargetOp(F) ==
    \E frames \in F : \E dest \in TargetChoices :
        IF selection_to_target_poll(World)
        THEN CanRun /\ SwitchStep(selection_to_target_execute(World, dest[1], dest[2], frames),
                        [Invoked("selection_to_target", "unavailable") EXCEPT
                            !.frames = frames, !.dest = dest])
        ELSE Ready /\ Step(World, [Invoked("selection_to_target", "unavailable") EXCEPT
                             !.frames = frames, !.dest = dest])

\* SPACE_SWITCHING_OT_build_two_bone_ik with frames from F.
BuildTwoBoneIKOp(F) ==
    \E frames \in F :
        IF build_two_bone_ik_poll(World)
        THEN CanRun /\ MadeStep(build_two_bone_ik_execute(World, 1, frames),
                      [Invoked("build_two_bone_ik", "unavailable") EXCEPT !.frames = frames])
        ELSE Ready /\ Step(World, [Invoked("build_two_bone_ik", "unavailable") EXCEPT !.frames = frames])

ApplyBone == ApplyBoneOp(FullRange)
SelectionToWorld == SelectionToWorldOp(FullRange)
SelectionToActive == SelectionToActiveOp(FullRange)
SelectionToTarget == SelectionToTargetOp(FullRange)
BuildTwoBoneIK == BuildTwoBoneIKOp(FullRange)

\* Every operator of the Space Switching menu that makes or removes bones,
\* over the whole frame range.
Next ==
    \/ Select
    \/ AddEmpty
    \/ DeleteBone
    \/ ApplyBone
    \/ SelectionToWorld
    \/ SelectionToActive
    \/ SelectionToTarget
    \/ BuildTwoBoneIK

Spec == Init /\ [][Next]_vars

\* Bake Pose on the source, any channels and any frame range.
BakePose == BakePoseOp(Frames, ChannelChoices)

NextBake ==
    \/ Select
    \/ BakePose

SpecBake == InitAnimated /\ [][NextBake]_vars

\* Switches to world and their removal, any frame range, the user free to
\* remove constraints in between.
SwitchToWorld == SelectionToWorldOp(Frames)
ApplyBack == ApplyBoneOp(Frames)

NextBack ==
    \/ Select
    \/ UserClearConstraints
    \/ SwitchToWorld
    \/ ApplyBack
    \/ DeleteBone

SpecBack == InitAny /\ [][NextBack]_vars

\* The location the user moves a bone to.
UserLocation == 3

\* The step of Make Local Armature with result r.
LocalStep(r, j) ==
    Step(r.w, [j EXCEPT !.outcome = r.outcome, !.old_object = r.old_object,
                        !.dest_object = r.dest_object])

\* SPACE_SWITCHING_OT_make_local_armature with frames from F.
MakeLocalArmatureOp(F) ==
    \E frames \in F, duplicated \in BOOLEAN :
        IF make_local_armature_poll(World)
        THEN CanRun /\ LocalStep(make_local_armature_execute(World, frames, duplicated),
                                 [Invoked("make_local_armature", "unavailable") EXCEPT
                                     !.frames = frames, !.active = <<activeObj, NoName>>])
        ELSE Ready /\ Step(World, [Invoked("make_local_armature", "unavailable") EXCEPT
                                      !.frames = frames, !.active = <<activeObj, NoName>>])

\* The user makes the source the active object again, in object mode or in
\* pose mode.
UserActivateSource ==
    /\ Ready
    /\ last.op \in {"make_local_armature", "pose_key"}
    /\ \E m \in {"OBJECT", "POSE"} :
          Step([World EXCEPT !.activeObj = RigObj, !.mode = m], Journal("activate", "user"))

\* The user animates the local duplicate: an unconnected bone of the active
\* object is moved and its location keyed on a frame.
UserKeyLocation ==
    /\ Ready
    /\ last.op = "make_local_armature"
    /\ last.outcome = "FINISHED"
    /\ \E id \in DOMAIN bones : \E f \in 1..MaxFrame :
          /\ id[1] = activeObj
          /\ ~bones[id].use_connect
          /\ keyframe_insert([World EXCEPT !.bones[id].basis.loc = UserLocation],
                             id, "location", "loc", f).ok
          /\ Step(keyframe_insert([World EXCEPT !.bones[id].basis.loc = UserLocation],
                                  id, "location", "loc", f).w,
                  Journal("pose_key", "user"))

\* Make Local Armature run again and again with the source as the active
\* object, the user animating the duplicate in between.
MakeLocalArmature == activeObj = RigObj /\ MakeLocalArmatureOp(Frames)

NextLocal ==
    \/ UserActivateSource
    \/ UserKeyLocation
    \/ MakeLocalArmature

SpecLocal == InitObjectMode /\ [][NextLocal]_vars

-----------------------------------------------------------------------------
(* The rotation written by custom_bake's write loop, lines 65-98 *)

\* Rotations as the write loop reads them from the bone after line 69 made the
\* sampled matrix its matrix_basis.  A quaternion <<w, x, y, z>> is a unit
\* quaternion times two, so that the 24 Hurwitz units have integer components.
\* An Euler angle is counted in eighths of a turn.
MaxSamples == 3

\* Operators followed one mode change at a time in one session.
MaxOps == 2
FullTurn == 8

Dot(a, b) == a[1] * b[1] + a[2] * b[2] + a[3] * b[3] + a[4] * b[4]
Negated(q) == <<0 - q[1], 0 - q[2], 0 - q[3], 0 - q[4]>>
DistSq(a, b) == Dot(a, a) - 2 * Dot(a, b) + Dot(b, b)
Abs(x) == IF x < 0 THEN 0 - x ELSE x

\* Quaternion.make_compatible(prev), the host's quat_to_compatible_quat for
\* unit quaternions: the negation when it is strictly nearer to prev.
make_compatible(quat, prev) ==
    IF DistSq(Negated(quat), prev) < DistSq(quat, prev) THEN Negated(quat) ELSE quat

\* An angle of a eighths of a turn against a threshold given in radians times
\* 10000 (pi = 3.1416): a * pi / 4 > rad.
Exceeds(a, rad10000) == a * 31416 > 4 * rad10000

\* The first loop of the host's compatible_eul: a difference beyond pi_thresh
\* is brought back by the nearest whole number of turns,
\* floorf(d / pi_x2 + 0.5f) * pi_x2.
WrapNear(e, old, pi_thresh) ==
    IF Exceeds(e - old, pi_thresh) THEN e - ((e - old + 4) \div FullTurn) * FullTurn
    ELSE IF Exceeds(old - e, pi_thresh) THEN e + ((old - e + 4) \div FullTurn) * FullTurn
    ELSE e

\* The second block of compatible_eul in hosts before 3.6: an axis more than
\* 3.2 rad away is turned once when both other axes are less than 1.6 rad
\* away.  The three tests use the differences left by the first loop.
WrapLone(e, d, other1, other2) ==
    IF Exceeds(Abs(d), 32000) /\ ~Exceeds(Abs(other1), 16000) /\ ~Exceeds(Abs(other2), 16000)
    THEN (IF d > 0 THEN e - FullTurn ELSE e + FullTurn)
    ELSE e

WrapLoneAll(e, old) ==
    << WrapLone(e[1], e[1] - old[1], e[2] - old[2], e[3] - old[3]),
       WrapLone(e[2], e[2] - old[2], e[3] - old[3], e[1] - old[1]),
       WrapLone(e[3], e[3] - old[3], e[1] - old[1], e[2] - old[2]) >>

\* Euler.make_compatible(prev), the host's compatible_eul.  Hosts from 3.0 (the
\* oldest the add-on declares, line 25) to 3.5 use pi_thresh = 5.1 and the
\* second block; later hosts use pi_thresh = pi and no second block.
euler_make_compatible(euler, prev, host) ==
    IF host = "3.0"
    THEN WrapLoneAll(<< WrapNear(euler[1], prev[1], 51000),
                        WrapNear(euler[2], prev[2], 51000),
                        WrapNear(euler[3], prev[3], 51000) >>, prev)
    ELSE << WrapNear(euler[1], prev[1], 31416),
            WrapNear(euler[2], prev[2], 31416),
            WrapNear(euler[3], prev[3], 31416) >>

Hosts == {"3.0", "3.6"}

\* The rotations a matrix decomposes to: quaternions about X and about the
\* diagonal, in both signs; Euler triples with x, z within half a turn and y
\* within a quarter; one axis-angle.
QuatSamples == { <<2, 0, 0, 0>>, <<-2, 0, 0, 0>>, <<0, 2, 0, 0>>, <<-1, -1, -1, -1>> }
EulerSamples == { <<3, 0, 0>>, <<-3, 1, 0>>, <<-3, 0, 3>> }
AxisAngleSamples == { <<1, 0, 1, 0>> }

RotationSamples(rotation_mode) ==
    IF rotation_mode = "QUATERNION" THEN QuatSamples
    ELSE IF rotation_mode = "AXIS_ANGLE" THEN AxisAngleSamples
    ELSE EulerSamples

\* quat_prev / euler_prev = None
None == <<>>

\* The write loop entered for two bones of one rotation mode over MaxSamples
\* frames: pose_info holds, per bone and frame, the rotation the bone takes
\* from the sampled matrix; keyed collects what keyframe_insert wrote.
WriteTask(host, rotation_mode, pose_info) ==
    [pc |-> "bone", host |-> host, rotation_mode |-> rotation_mode, pose_info |-> pose_info,
     bone |-> 1, frame |-> 1, quat_prev |-> None, euler_prev |-> None,
     keyed |-> <<<<>>, <<>>>>]

\* The host builds that differ for a rotation mode: only Euler.make_compatible
\* changed between them.
HostsFor(rotation_mode) ==
    IF rotation_mode \in {"QUATERNION", "AXIS_ANGLE"} THEN {"3.6"} ELSE Hosts

InitRotation ==
    /\ objects = {RigObj}
    /\ bones = RigBones
    /\ order = (RigObj :> <<"Root", "Arm", "Hand">>)
    /\ fcurves = <<>>
    /\ frame_current = 0
    /\ mode = "POSE"
    /\ activeObj = RigObj
    /\ activeBone = (RigObj :> NoName)
    /\ hide_viewport = {}
    /\ last = Journal("none", "none")
    /\ runs = 0
    /\ \E m \in {"QUATERNION", "AXIS_ANGLE", "XYZ"} :
          \E h \in HostsFor(m) :
              \E p \in [1..2 -> [1..MaxSamples -> RotationSamples(m)]] :
                  task = WriteTask(h, m, p)

\* The end of one pass of the inner loop (line 68): the rotation was keyed,
\* the next frame or the next bone follows.
bake_keyed(t, value) ==
    [t EXCEPT !.keyed[t.bone] = Append(@, value),
              !.frame = IF t.frame = MaxSamples THEN 1 ELSE t.frame + 1,
              !.bone = IF t.frame = MaxSamples THEN t.bone + 1 ELSE t.bone,
              !.pc = IF t.frame < MaxSamples THEN "frame"
                     ELSE IF t.bone < Len(t.pose_info) THEN "bone" ELSE "done"]

\* Lines 78-86 with quat_prev taken from the bone before make_compatible.
bake_write_quaternion_raw(t, quat) ==
    IF t.quat_prev # None
    THEN bake_keyed([t EXCEPT !.quat_prev = quat], make_compatible(quat, t.quat_prev))
    ELSE bake_keyed([t EXCEPT !.quat_prev = quat], quat)

\* Lines 78-86: quat is pose_bone.rotation_quaternion.
bake_write_quaternion(t, quat) ==
    IF t.quat_prev # None
    THEN bake_keyed([t EXCEPT !.quat_prev = make_compatible(quat, t.quat_prev)],
                    make_compatible(quat, t.quat_prev))
    ELSE bake_keyed([t EXCEPT !.quat_prev = quat], quat)

\* Lines 90-98: euler is pose_bone.rotation_euler.
bake_write_euler(t, euler) ==
    IF t.euler_prev # None
    THEN bake_keyed([t EXCEPT !.euler_prev = euler_make_compatible(euler, t.euler_prev, t.host)],
                    euler_make_compatible(euler, t.euler_prev, t.host))
    ELSE bake_keyed([t EXCEPT !.euler_prev = euler], euler)

World0 ==
    UNCHANGED <<objects, bones, order, fcurves, frame_current, mode, activeObj, activeBone,
                hide_viewport, last, runs>>

\* Lines 65-67: the outer loop takes the next bone.
WriteBone ==
    /\ task.pc = "bone"
    /\ task' = [task EXCEPT !.pc = "frame", !.euler_prev = None, !.quat_prev = None]
    /\ World0

WriteQuaternion ==
    /\ task.pc = "frame" /\ task.rotation_mode = "QUATERNION"
    /\ task' = bake_write_quaternion(task, task.pose_info[task.bone][task.frame])
    /\ World0

\* Lines 87-88: the axis-angle is keyed as the bone holds it.
WriteAxisAngle ==
    /\ task.pc = "frame" /\ task.rotation_mode = "AXIS_ANGLE"
    /\ task' = bake_keyed(task, task.pose_info[task.bone][task.frame])
    /\ World0

WriteEuler ==
    /\ task.pc = "frame" /\ task.rotation_mode \notin {"QUATERNION", "AXIS_ANGLE"}
    /\ task' = bake_write_euler(task, task.pose_info[task.bone][task.frame])
    /\ World0

NextRotation ==
    \/ WriteBone
    \/ WriteQuaternion
    \/ WriteAxisAngle
    \/ WriteEuler

SpecRotation == InitRotation /\ [][NextRotation]_vars

-----------------------------------------------------------------------------
(* custom_bake step by step, lines 35-103 *)

\* The pose_bones a caller passes: one or two bones of the source.
BakeLists ==
    {<<a>> : a \in DOMAIN RigBones}
    \cup {s \in {<<a, b>> : a, b \in DOMAIN RigBones} : s[1] # s[2]}

Event(ev, id, frame) == [ev |-> ev, bone |-> id, frame |-> frame]

\* Lines 43-49: the call entered with its arguments; w is the world it found.
bake_call(w, frames, pose_bones, channels) ==
    [pc |-> "frame", frames |-> frames, pose_bones |-> pose_bones,
     do_location |-> "location" \in channels, do_rotation |-> "rotation" \in channels,
     do_scale |-> "scale" \in channels,
     original_frame |-> w.frame_current, pose_info |-> [i \in DOMAIN pose_bones |-> <<>>],
     frame |-> 1, bone |-> 1, start |-> w, log |-> <<>>, outcome |-> "running"]

\* Lines 39-41: the call that raises at once.
bake_refused(w, frames, pose_bones) ==
    [bake_call(w, frames, pose_bones, {}) EXCEPT !.pc = "returned", !.outcome = "ValueError"]

\* Lines 53-54: the cursor goes to the next frame and the scene is evaluated.
bake_frame_set(t) ==
    [t EXCEPT !.pc = "sample", !.bone = 1,
              !.log = Append(@, Event("frame_set", NoId, t.frames[t.frame]))]

\* Lines 56-61: one bone sampled at the frame under the cursor; after the last
\* bone the next frame follows, after the last frame the write loop.
bake_sampled(w, t) ==
    [t EXCEPT !.pose_info[t.bone] =
                  Append(@, convert_space(w, t.pose_bones[t.bone], w.frame_current)),
              !.log = Append(@, Event("sample", t.pose_bones[t.bone], w.frame_current)),
              !.bone = IF t.bone < Len(t.pose_bones) THEN t.bone + 1 ELSE 1,
              !.frame = IF t.bone < Len(t.pose_bones) THEN t.frame
                        ELSE IF t.frame < Len(t.frames) THEN t.frame + 1 ELSE 1,
              !.pc = IF t.bone < Len(t.pose_bones) THEN "sample"
                     ELSE IF t.frame < Len(t.frames) THEN "frame" ELSE "write"]

\* The write loop run with the frames outside and the bones inside.
bake_written_by_frame(t, ok) ==
    IF ~ok THEN [t EXCEPT !.pc = "returned", !.outcome = "RuntimeError"]
    ELSE [t EXCEPT !.log = Append(@, Event("write", t.pose_bones[t.bone], t.frames[t.frame])),
                   !.bone = IF t.bone < Len(t.pose_bones) THEN t.bone + 1 ELSE 1,
                   !.frame = IF t.bone < Len(t.pose_bones) THEN t.frame ELSE t.frame + 1,
                   !.pc = IF t.bone < Len(t.pose_bones) \/ t.frame < Len(t.frames)
                          THEN "write" ELSE "end"]

\* Lines 65-68: after one bone's frame is written the bone's next frame
\* follows, after its last frame the next bone; an insert that raised ends
\* the call.
bake_written(t, ok) ==
    IF ~ok THEN [t EXCEPT !.pc = "returned", !.outcome = "RuntimeError"]
    ELSE [t EXCEPT !.log = Append(@, Event("write", t.pose_bones[t.bone], t.frames[t.frame])),
                   !.frame = IF t.frame < Len(t.frames) THEN t.frame + 1 ELSE 1,
                   !.bone = IF t.frame < Len(t.frames) THEN t.bone ELSE t.bone + 1,
                   !.pc = IF t.frame < Len(t.frames) \/ t.bone < Len(t.pose_bones)
                          THEN "write" ELSE "end"]

\* Line 103
bake_returned(t) ==
    [t EXCEPT !.pc = "returned", !.outcome = "FINISHED",
              !.log = Append(@, Event("frame_set", NoId, t.original_frame))]

\* The step of the call in progress to world w and position t.
TaskStep(w, t) ==
    /\ objects' = w.objects
    /\ bones' = w.bones
    /\ order' = w.order
    /\ fcurves' = w.fcurves
    /\ frame_current' = w.frame_current
    /\ mode' = w.mode
    /\ activeObj' = w.activeObj
    /\ activeBone' = w.activeBone
    /\ hide_viewport' = w.hide_viewport
    /\ task' = t
    /\ UNCHANGED <<last, runs>>

\* A caller enters custom_bake; one call is followed to its return.
BakeCall ==
    /\ task.pc = "idle"
    /\ \E frames \in Frames, pose_bones \in BakeLists, channels \in ChannelChoices :
          /\ task' = IF channels = {} THEN bake_refused(World, frames, pose_bones)
                     ELSE bake_call(World, frames, pose_bones, channels)
          /\ runs' = runs + 1
          /\ last' = [Journal("custom_bake", "called") EXCEPT
                          !.after = last.op, !.frames = frames, !.baked = pose_bones,
                          !.channels = channels]
          /\ UNCHANGED <<objects, bones, order, fcurves, frame_current, mode, activeObj,
                         activeBone, hide_viewport>>

BakeFrameSet ==
    /\ task.pc = "frame"
    /\ TaskStep(frame_set(World, task.frames[task.frame]), bake_frame_set(task))

BakeSample ==
    /\ task.pc = "sample"
    /\ TaskStep(World, bake_sampled(World, task))

BakeWritten(r) == TaskStep(r.w, bake_written(task, r.ok))

BakeWrite ==
    /\ task.pc = "write"
    /\ BakeWritten(bake_write_frame(World, task.pose_bones[task.bone], task.frames[task.frame],
                                    task.pose_info[task.bone][task.frame],
                                    task.do_location, task.do_rotation, task.do_scale))

BakeReturn ==
    /\ task.pc = "end"
    /\ TaskStep(frame_set(World, task.original_frame), bake_returned(task))

NextPhases ==
    \/ BakeCall
    \/ BakeFrameSet
    \/ BakeSample
    \/ BakeWrite
    \/ BakeReturn

SpecPhases == InitAnimated /\ [][NextPhases]_vars

-----------------------------------------------------------------------------
(* Space switches followed by Make Local Armature *)

\* After an operator in pose mode the user goes to object mode and makes the
\* source the active object.
UserObjectMode ==
    /\ Ready
    /\ mode = "POSE"
    /\ last.op \notin {"none", "select", "activate"}
    /\ Step([World EXCEPT !.activeObj = RigObj, !.mode = "OBJECT"], Journal("activate", "user"))

\* Make Local Armature on the source over the whole frame range.
MakeLocalArmatureWhole == activeObj = RigObj /\ MakeLocalArmatureOp(FullRange)

NextLocalSwitch ==
    \/ Select
    \/ SelectionToWorld
    \/ SelectionToActive
    \/ UserObjectMode
    \/ UserActivateSource
    \/ MakeLocalArmatureWhole

SpecLocalSwitch == InitAnimated /\ [][NextLocalSwitch]_vars

-----------------------------------------------------------------------------
(* Sessions that end with a Delete *)

\* Delete run once more after the last operator of the session.
DeleteBoneLast ==
    /\ Ready
    /\ runs = MaxRuns
    /\ delete_bone_poll(World)
    /\ RemoveStep(_remove_bones_common(World, FALSE, <<>>), Invoked("delete_bone", "unavailable"))

\* Add Empty, Switch to Active, Delete and Apply, and one Delete after them.
NextRemoval ==
    \/ Select
    \/ AddEmpty
    \/ SelectionToActive
    \/ DeleteBone
    \/ ApplyBone
    \/ DeleteBoneLast

SpecRemoval == Init /\ [][NextRemoval]_vars

-----------------------------------------------------------------------------
(* Sessions that switch the same bones again *)

\* The operators one session of this kind may run.
MaxSession == 7

CanGoOn == Ready /\ runs < MaxSession

\* The user selects one shown bone in pose mode, which becomes the active bone.
SelectOne ==
    /\ Ready
    /\ mode = "POSE"
    /\ last.op # "select"
    /\ \E act \in VisibleBones :
           Step([World EXCEPT
                    !.bones = [id \in DOMAIN bones |->
                                  [bones[id] EXCEPT !.select = IF bones[id].hide THEN @ ELSE id = act]],
                    !.activeObj = act[1],
                    !.activeBone = [@ EXCEPT ![act[1]] = act[2]]],
                Journal("select", "user"))

\* SPACE_SWITCHING_OT_selection_to_world over the whole range, when its poll
\* accepts.
SessionToWorld ==
    \E frames \in FullRange :
        /\ CanGoOn
        /\ selection_to_world_poll(World)
        /\ SwitchStep(_space_switch(World, Selected, NoId, frames),
                      [Invoked("selection_to_world", "unavailable") EXCEPT
                          !.frames = frames, !.motion = Motion(World, Selected, frames)])

\* SPACE_SWITCHING_OT_selection_to_target over the whole range with a bone of
\* the scene as the target, when its poll accepts.
SessionToTarget ==
    \E frames \in FullRange : \E dest \in DOMAIN bones :
        /\ CanGoOn
        /\ selection_to_target_poll(World)
        /\ SwitchStep(selection_to_target_execute(World, dest[1], dest[2], frames),
                      [Invoked("selection_to_target", "unavailable") EXCEPT
                          !.frames = frames, !.dest = dest])

\* SPACE_SWITCHING_OT_apply_bone over the whole range, when its poll accepts.
SessionApply ==
    \E frames \in FullRange :
        /\ CanGoOn
        /\ apply_bone_poll(World)
        /\ RemoveStep(_remove_bones_common(World, TRUE, frames),
                      [Invoked("apply_bone", "unavailable") EXCEPT !.frames = frames])

\* SPACE_SWITCHING_OT_delete_bone, when its poll accepts.
SessionDelete ==
    /\ CanGoOn
    /\ delete_bone_poll(World)
    /\ RemoveStep(_remove_bones_common(World, FALSE, <<>>), Invoked("delete_bone", "unavailable"))

\* Switches to world and to a target, Apply and Delete on one bone at a time,
\* long enough for a switch to be undone and made again.
NextSession == SelectOne \/ SessionToWorld \/ SessionToTarget \/ SessionApply \/ SessionDelete

SpecSession == Init /\ [][NextSession]_vars

-----------------------------------------------------------------------------

(* The operators that make or remove bones, one mode change at a time *)

\* The frame range the operators are run over here.
WholeRange == FrameRange(1, MaxFrame)

\* The operator in progress: where it stands (pc), the world it was invoked
\* in (w0), its destination, and what its loops have collected so far (held).
Running(pc, op, w0, dest, held) ==
    [pc |-> pc, op |-> op, w0 |-> w0, dest |-> dest, held |-> held]

\* The working set of the switch in progress.
Sources(t) == WorkingSet(selected_pose_bones(t.w0), t.dest)

\* A step of the operator in progress to world w, its position becoming t.
ModeStep(w, t) ==
    /\ objects' = w.objects
    /\ bones' = w.bones
    /\ order' = w.order
    /\ fcurves' = w.fcurves
    /\ frame_current' = w.frame_current
    /\ mode' = w.mode
    /\ activeObj' = w.activeObj
    /\ activeBone' = w.activeBone
    /\ hide_viewport' = w.hide_viewport
    /\ task' = t
    /\ UNCHANGED <<last, runs>>

\* The operator in progress returns, or raises, in world w with journal entry j.
ModeReturn(w, j) ==
    /\ objects' = w.objects
    /\ bones' = w.bones
    /\ order' = w.order
    /\ fcurves' = w.fcurves
    /\ frame_current' = w.frame_current
    /\ mode' = w.mode
    /\ activeObj' = w.activeObj
    /\ activeBone' = w.activeBone
    /\ hide_viewport' = w.hide_viewport
    /\ task' = Idle
    /\ last' = [j EXCEPT !.changed = TRUE, !.after = last.op]
    /\ runs' = runs + 1

\* The journal entry of the operator in progress, which ended with `outcome`.
Returned(t, outcome) ==
    [Journal(t.op, outcome) EXCEPT !.selected = selected_pose_bones(t.w0),
                                  !.active = active_pose_bone(t.w0),
                                  !.dest = t.dest]

\* The user may invoke one more operator.
CanInvoke == task.pc = "idle" /\ runs < MaxOps

\* The user selects bones between two operators.
SelectBetween == task.pc = "idle" /\ Select

\* Lines 267-275: a switch is invoked; the selection is cleared and the
\* sources are hidden, in pose mode.
SwitchBegins(op, dest) ==
    /\ Len(WorkingSet(Selected, dest)) >= 1
    /\ ModeStep(space_switch_hide(World, WorkingSet(Selected, dest)),
                Running("pose", op, World, dest, <<>>))

BeginSelectionToWorld ==
    /\ CanInvoke
    /\ selection_to_world_poll(World)
    /\ SwitchBegins("selection_to_world", NoId)

BeginSelectionToActive ==
    /\ CanInvoke
    /\ selection_to_active_poll(World)
    /\ SwitchBegins("selection_to_active", active_pose_bone(World))

\* Lines 600-602: Add Empty is invoked; the selection is cleared.
BeginAddEmpty ==
    /\ CanInvoke
    /\ add_empty_poll(World)
    /\ ModeStep(ClearSelection(World), Running("pose", "add_empty", World, NoId, <<>>))

\* The loop of lines 183-208 has run, with result collected.
RemovalCollected(op, to_bake, collected) ==
    ModeStep(collected.w,
             Running("pose", op, World, NoId, [to_bake |-> to_bake, collected |-> collected]))

\* Lines 161-208: the loop that collects names, removes curves and releases
\* the constrained bones, in pose mode, after the bake (if any) ended as baked.
RemovalBegins(op, baked, to_bake) ==
    IF baked.outcome # "FINISHED"
    THEN ModeReturn(baked.w, [Returned(Running("pose", op, World, NoId, <<>>), baked.outcome)
                                 EXCEPT !.baked = to_bake])
    ELSE RemovalCollected(op, to_bake,
                          remove_collect_loop([w |-> baked.w, names_of_bones_to_remove |-> <<>>,
                                               src_bones_to_select |-> <<>>,
                                               src_bone_to_activate |-> NoId],
                                              Selected, active_pose_bone(World), 1))

BeginDeleteBone ==
    /\ CanInvoke
    /\ delete_bone_poll(World)
    /\ RemovalBegins("delete_bone", [w |-> World, outcome |-> "FINISHED"], <<>>)

BeginApplyBone ==
    /\ CanInvoke
    /\ apply_bone_poll(World)
    /\ RemovalBegins("apply_bone", remove_bake(World, pose_bones_to_bake(World), WholeRange),
                     pose_bones_to_bake(World))

\* Lines 277, 210, 604: bpy.ops.object.mode_set(mode = 'OBJECT')
ToObjectMode ==
    /\ task.pc = "pose"
    /\ ModeStep(mode_set(World, "OBJECT"), [task EXCEPT !.pc = "object"])

\* Lines 283-287, 216-220, 610-614: the temporary object becomes active.
ActivateTemp ==
    /\ task.pc = "object"
    /\ ModeStep(temp_activate(World), [task EXCEPT !.pc = "active"])

\* Lines 289, 222, 616: bpy.ops.object.mode_set(mode = 'EDIT')
ToEditMode ==
    /\ task.pc = "active"
    /\ ModeStep(mode_set(World, "EDIT"), [task EXCEPT !.pc = "edit"])

\* Lines 293-354: the edit bones of the switch have been made, with result e.
SwitchEdited(e) ==
    /\ TempCount(e.w) <= MaxTempBones
    /\ ModeStep(e.w, [task EXCEPT !.pc = "edited", !.held = e.temp_bone_names])

\* Lines 619-623: the edit bone of Add Empty has been made, with result e.
EmptyEdited(e) ==
    /\ TempCount(e.w) <= MaxTempBones
    /\ ModeStep(e.w, [task EXCEPT !.pc = "edited", !.held = e.name])

\* Lines 224-226: the collected names have been removed, with result r; a
\* name that was not there raised KeyError, which ends the operator.
RemovalEdited(r) ==
    IF r.ok
    THEN ModeStep(r.w, [task EXCEPT !.pc = "edited"])
    ELSE ModeReturn(r.w, [Returned(task, "KeyError") EXCEPT
                             !.baked = task.held.to_bake,
                             !.names = task.held.collected.names_of_bones_to_remove,
                             !.found = task.held.collected.src_bones_to_select])

\* The bones are made, or removed, in edit mode.
EditBones ==
    /\ task.pc = "edit"
    /\ IF task.op \in {"selection_to_world", "selection_to_active"}
       THEN SwitchEdited(space_switch_edit_loop([w |-> World, temp_bone_names |-> <<>>],
                                                Sources(task), task.dest, 1))
       ELSE IF task.op = "add_empty"
       THEN EmptyEdited(edit_bones_new(World, empty_name, 1, 0))
       ELSE RemovalEdited(remove_edit_loop([w |-> World, ok |-> TRUE],
                                           task.held.collected.names_of_bones_to_remove, 1))

\* Lines 356-361, 228-233, 625-630: back to object mode, the original objects
\* reselected with no active bone.
BackToObjectMode ==
    /\ task.pc = "edited"
    /\ ModeStep(ClearActiveBones(mode_set(World, "OBJECT"), task.w0.objects),
                [task EXCEPT !.pc = "back"])

\* Lines 363, 235, 632: bpy.ops.object.mode_set(mode = 'POSE')
ToPoseMode ==
    /\ task.pc = "back"
    /\ ModeStep(mode_set(World, "POSE"), [task EXCEPT !.pc = "posed"])

\* Lines 365-457: the rest of the switch, with result r.
SwitchReturns(r) ==
    ModeReturn(r.w, [Returned(task, r.outcome) EXCEPT !.frames = WholeRange,
                                                     !.sources = r.sources, !.copies = r.copies])

\* Lines 237-246: the rest of the removal, with result r.
RemovalReturns(r) ==
    ModeReturn(r.w, [Returned(task, r.outcome) EXCEPT !.baked = r.baked, !.names = r.names,
                                                     !.found = r.found])

\* The operator does the rest of its work in pose mode and returns.
Finish ==
    /\ task.pc = "posed"
    /\ IF task.op \in {"selection_to_world", "selection_to_active"}
       THEN SwitchReturns(space_switch_posed(World, task.held, WholeRange, Sources(task),
                                             task.dest, active_pose_bone(task.w0)))
       ELSE IF task.op = "add_empty"
       THEN ModeReturn([World EXCEPT
                           !.bones[<<object_name, task.held>>].select = TRUE,
                           !.bones[<<object_name, task.held>>].space_switching_tag = "EMPTY",
                           !.activeBone[object_name] = task.held],
                       Returned(task, "FINISHED"))
       ELSE RemovalReturns(remove_select(
                remove_select_loop([w |-> World, ok |-> TRUE],
                                   task.held.collected.src_bones_to_select, 1),
                task.held.to_bake, task.held.collected))

NextModes ==
    \/ SelectBetween
    \/ BeginSelectionToWorld
    \/ BeginSelectionToActive
    \/ BeginAddEmpty
    \/ BeginDeleteBone
    \/ BeginApplyBone
    \/ ToObjectMode
    \/ ActivateTemp
    \/ ToEditMode
    \/ EditBones
    \/ BackToObjectMode
    \/ ToPoseMode
    \/ Finish

SpecModes == Init /\ [][NextModes]_vars

-----------------------------------------------------------------------------
(* is_constrained_to on its own *)

\* The constraints and the bones the function is tried on.
ConstraintTypes == {"COPY_ROTATION", "IK", "LIMIT_ROTATION"}
ObjectSamples == {NoName, RigObj, object_name}
BoneSamples == {NoName, "Arm", "Arm_Copy"}
CandidateSamples == {<<RigObj, "Arm">>, <<object_name, "Arm_Copy">>}

\* One call of is_constrained_to: its arguments, and its result once it returned.
ConstraintCall(constraint, target_pose_bone) ==
    [pc |-> "called", constraint |-> constraint, target_pose_bone |-> target_pose_bone,
     result |-> FALSE]

InitConstrained ==
    /\ objects = {RigObj}
    /\ bones = RigBones
    /\ order = (RigObj :> <<"Root", "Arm", "Hand">>)
    /\ fcurves = (RigObj :> RigAnimation(FALSE))
    /\ frame_current = 0
    /\ mode = "POSE"
    /\ activeObj = RigObj
    /\ activeBone = (RigObj :> NoName)
    /\ hide_viewport = {}
    /\ last = Journal("none", "none")
    /\ runs = 0
    /\ \E type \in ConstraintTypes : \E target, pole_target \in ObjectSamples :
       \E subtarget, pole_subtarget \in BoneSamples : \E candidate \in CandidateSamples :
           task = ConstraintCall([NewConstraint(type, target, subtarget, 0) EXCEPT
                                     !.pole_target = pole_target,
                                     !.pole_subtarget = pole_subtarget],
                                 candidate)

\* The call returns.
IsConstrainedTo ==
    /\ task.pc = "called"
    /\ task' = [task EXCEPT !.pc = "returned",
                            !.result = is_constrained_to(task.constraint, task.target_pose_bone)]
    /\ UNCHANGED <<objects, bones, order, fcurves, frame_current, mode, activeObj, activeBone,
                   hide_viewport, last, runs>>

NextConstrained == IsConstrainedTo

SpecConstrained == InitConstrained /\ [][NextConstrained]_vars

-----------------------------------------------------------------------------
(* The claims *)

\* The world after the step.
WorldNext ==
    [objects |-> objects', bones |-> bones', order |-> order', fcurves |-> fcurves',
     frame_current |-> frame_current', mode |-> mode', activeObj |-> activeObj',
     activeBone |-> activeBone', hide_viewport |-> hide_viewport']

SwitchOps == {"selection_to_world", "selection_to_active", "selection_to_target"}

\* The tag of bone id.
TagOf(id) == bones[id].space_switching_tag

\* C1: whatever operators were run (switches, Add Empty, Build IK, Delete,
\* Apply) and however they ended, the bones of the temporary armature are
\* exactly the bones whose tag is not NONE.
C1_TagInvariant ==
    \A id \in DOMAIN bones : (id[1] = object_name) <=> (TagOf(id) # "NONE")

\* Two operators were run and bones of every tag exist.
C1_Witness ==
    /\ runs >= 2
    /\ {TagOf(id) : id \in DOMAIN bones} = Tags

\* The constraints of bone s of the given type that are aimed at bone c.
ConstraintsTo(s, c, type) ==
    {i \in DOMAIN bones[s].constraints :
        /\ bones[s].constraints[i].type = type
        /\ bones[s].constraints[i].target = c[1]
        /\ bones[s].constraints[i].subtarget = c[2]}

\* C4: after a switch that completed, source i carries one COPY_ROTATION aimed
\* at copy i, one COPY_LOCATION aimed at copy i unless the source is connected
\* (then none), and nothing else; the copies are pairwise distinct bones.
C4_Rewired ==
    (last.op \in SwitchOps /\ last.outcome = "FINISHED" /\ last.sources # <<>>) =>
        /\ Len(last.copies) = Len(last.sources)
        /\ \A i \in DOMAIN last.sources :
              /\ last.copies[i] \in DOMAIN bones
              /\ TagOf(last.copies[i]) = "COPY"
              /\ Cardinality(ConstraintsTo(last.sources[i], last.copies[i], "COPY_ROTATION")) = 1
              /\ Cardinality(ConstraintsTo(last.sources[i], last.copies[i], "COPY_LOCATION"))
                     = (IF bones[last.sources[i]].use_connect THEN 0 ELSE 1)
              /\ Len(bones[last.sources[i]].constraints)
                     = (IF bones[last.sources[i]].use_connect THEN 1 ELSE 2)
              /\ \A j \in DOMAIN last.copies : j # i => last.copies[j] # last.copies[i]

\* A switch of two sources completed.
C4_Witness ==
    /\ last.op \in SwitchOps
    /\ last.outcome = "FINISHED"
    /\ Len(last.sources) = 2

\* Every bone of the sequence has one of the tags.
AllTagged(sel, tags) == \A i \in DOMAIN sel : TagOf(sel[i]) \in tags

\* C5: Delete is run exactly when, in pose mode, something is selected and no
\* selected bone is tagged NONE, and Apply exactly when something is selected
\* and every selected bone is tagged COPY; a refused Delete or Apply removes
\* no bone and changes no curve.
C5_Availability ==
    [][ /\ last'.op = "delete_bone" =>
              ((last'.outcome # "unavailable")
                   <=> (mode = "POSE" /\ Selected # <<>> /\ AllTagged(Selected, Tags \ {"NONE"})))
        /\ last'.op = "apply_bone" =>
              ((last'.outcome # "unavailable")
                   <=> (mode = "POSE" /\ Selected # <<>> /\ AllTagged(Selected, {"COPY"})))
        /\ (last'.op \in {"delete_bone", "apply_bone"} /\ last'.outcome = "unavailable") =>
              (bones' = bones /\ order' = order /\ fcurves' = fcurves) ]_vars

\* Delete was refused on a selection of a bone tagged NONE and a copy.
C5_Witness ==
    /\ last.op = "delete_bone"
    /\ last.outcome = "unavailable"
    /\ \E i, j \in DOMAIN last.selected :
          TagOf(last.selected[i]) = "NONE" /\ TagOf(last.selected[j]) = "COPY"

\* No bone of the sequence has a constraint.
Unconstrained(sel) == \A i \in DOMAIN sel : Len(bones[sel[i]].constraints) = 0

\* C6: Switch to World and Switch to Target are run exactly when, in pose mode,
\* something is selected and no selected bone has a constraint; Switch to
\* Active exactly when more than one bone is selected and none has a constraint.
C6_SwitchAvailability ==
    [][ /\ last'.op \in {"selection_to_world", "selection_to_target"} =>
              ((last'.outcome # "unavailable")
                   <=> (mode = "POSE" /\ Len(Selected) > 0 /\ Unconstrained(Selected)))
        /\ last'.op = "selection_to_active" =>
              ((last'.outcome # "unavailable")
                   <=> (mode = "POSE" /\ Len(Selected) > 1 /\ Unconstrained(Selected))) ]_vars

\* Switch to Active was refused on one selected bone without constraints.
C6_Witness ==
    /\ last.op = "selection_to_active"
    /\ last.outcome = "unavailable"
    /\ Len(last.selected) = 1
    /\ Unconstrained(last.selected)

\* C9: a switch that gets to _space_switch works on the selection without the
\* destination, makes no copy of the destination and neither hides nor
\* constrains it; when nothing is left to work on it ends without an error
\* and leaves every part of the world as it was.
C9_DestinationNotSource ==
    [][ (last'.op \in SwitchOps /\ last'.outcome \notin {"unavailable", "error", "KeyError"}) =>
            /\ last'.sources = SeqFilter(Selected, Range(Selected) \ {last'.dest})
            /\ Len(last'.copies) = Len(last'.sources)
            /\ last'.dest \in Range(Selected) =>
                  /\ bones'[last'.dest].hide = bones[last'.dest].hide
                  /\ bones'[last'.dest].constraints = bones[last'.dest].constraints
            /\ last'.sources = <<>> => (last'.outcome = "FINISHED" /\ WorldNext = World) ]_vars

\* Switch to Target was run with the one selected bone as its target.
C9_Witness ==
    /\ last.op = "selection_to_target"
    /\ last.selected = <<last.dest>>
    /\ last.outcome = "FINISHED"
    /\ last.sources = <<>>
    /\ ~last.changed

\* Sequences of at most two bones.
BoneLists ==
    {<<>>} \cup {<<a>> : a \in DOMAIN bones} \cup {<<a, b>> : a, b \in DOMAIN bones}

\* C3: with no channel asked for, custom_bake raises ValueError for any frames
\* and any bones and leaves the world (cursor, poses, curves) as it was; a
\* Bake Pose run with no channel ends that way.
C3_NoChannels ==
    /\ \A frames \in Frames \cup {<<>>} : \A pose_bones \in BoneLists :
          custom_bake(World, frames, pose_bones, FALSE, FALSE, FALSE)
              = [w |-> World, outcome |-> "ValueError"]
    /\ (last.op = "bake_pose" /\ last.outcome # "unavailable" /\ last.channels = {}) =>
          (last.outcome = "ValueError" /\ ~last.changed)

\* Bake Pose was run on a selection with no channel.
C3_Witness ==
    /\ last.op = "bake_pose"
    /\ last.outcome = "ValueError"
    /\ last.channels = {}
    /\ last.selected # <<>>

\* The bone has a curve of the channel with a key on each of the frames.
HasKeys(id, channel, frames) ==
    \E i \in DOMAIN Curves(World, id[1]) :
        /\ Curves(World, id[1])[i].bone = id[2]
        /\ Curves(World, id[1])[i].channel = channel
        /\ Range(frames) \subseteq DOMAIN Curves(World, id[1])[i].keys

\* C7: however often and on whatever frames the bake ran, a connected bone has
\* no location key; a bake with location asked for that finished has written
\* the rotation and scale keys asked for of its connected bones on every
\* frame, and a bake of connected bones alone raises nothing.
C7_ConnectedLocation ==
    /\ \A id \in DOMAIN bones : \A f \in 0..MaxFrame :
          bones[id].use_connect => ~HasKeys(id, "location", <<f>>)
    /\ (last.op = "bake_pose" /\ "location" \in last.channels /\ last.outcome # "unavailable") =>
          /\ (\A i \in DOMAIN last.baked : bones[last.baked[i]].use_connect) =>
                last.outcome = "FINISHED"
          /\ last.outcome = "FINISHED" =>
                \A i \in DOMAIN last.baked : bones[last.baked[i]].use_connect =>
                    /\ "rotation" \in last.channels =>
                          HasKeys(last.baked[i], RotChannel(bones[last.baked[i]].rotation_mode),
                                  last.frames)
                    /\ "scale" \in last.channels => HasKeys(last.baked[i], "scale", last.frames)

\* A second bake, of every channel, finished on a connected bone.
C7_Witness ==
    /\ last.op = "bake_pose"
    /\ last.after = "bake_pose"
    /\ last.outcome = "FINISHED"
    /\ last.channels = {"location", "rotation", "scale"}
    /\ \E i \in DOMAIN last.baked : bones[last.baked[i]].use_connect

\* C8: a Bake Pose that got past the test of the channels, finished or
\* stopped by an insert that raised, leaves the frame cursor where it was.
C8_CursorRestored ==
    [][ (last'.op = "bake_pose" /\ last'.outcome \in {"FINISHED", "RuntimeError"}) =>
            frame_current' = frame_current ]_vars

\* C2: Apply run on the copies right after the Switch to World that made
\* them, over the same frames, leaves each source with the pose it had on each
\* of those frames before the switch.
C2_RoundTrip ==
    [][ ( /\ last.op = "selection_to_world" /\ last.outcome = "FINISHED"
          /\ last'.op = "apply_bone" /\ last'.outcome = "FINISHED"
          /\ Selected = last.copies
          /\ last'.frames = last.frames )
        => Motion(WorldNext, last.sources, last.frames) = last.motion ]_vars

\* Apply finished right after a Switch to World and baked a bone with a parent.
C2_Witness ==
    /\ last.op = "apply_bone"
    /\ last.after = "selection_to_world"
    /\ last.outcome = "FINISHED"
    /\ \E i \in DOMAIN last.baked : bones[last.baked[i]].parent # NoName
    /\ \A i \in DOMAIN last.selected : last.selected[i] \notin DOMAIN bones

\* C10: Apply run when no bone is constrained to a selected bone bakes
\* nothing, raises nothing and leaves the world that Delete would leave: the
\* selected bones are gone.
C10_ApplyWithoutSources ==
    [][ (last'.op = "apply_bone" /\ last'.outcome # "unavailable"
            /\ pose_bones_to_bake(World) = <<>>) =>
            /\ last'.outcome = "FINISHED"
            /\ last'.baked = <<>>
            /\ WorldNext = _remove_bones_common(World, FALSE, <<>>).w
            /\ \A i \in DOMAIN Selected : Selected[i] \notin DOMAIN bones' ]_vars

\* Apply finished on copies that nothing was constrained to.
C10_Witness ==
    /\ last.op = "apply_bone"
    /\ last.outcome = "FINISHED"
    /\ last.baked = <<>>
    /\ last.selected # <<>>
    /\ \A i \in DOMAIN last.selected : last.selected[i] \notin DOMAIN bones

\* C11: a Switch to Target whose target name is blank, whose bone name is
\* blank or whose target is no armature of the scene reports the error and
\* finishes with the whole world (bones, constraints, hide flags, selection,
\* curves) as it was.
C11_TargetErrors ==
    [][ ( /\ last'.op = "selection_to_target"
          /\ last'.outcome # "unavailable"
          /\ (last'.dest[1] = NoName \/ last'.dest[2] = NoName \/ last'.dest[1] \notin objects) )
        => ( /\ last'.outcome = "error"
             /\ WorldNext = World
             /\ last'.sources = <<>>
             /\ last'.copies = <<>> ) ]_vars

\* Switch to Target was run on a selection with a target that is no armature.
C11_Witness ==
    /\ last.op = "selection_to_target"
    /\ last.outcome = "error"
    /\ last.dest[1] \notin objects \cup {NoName}
    /\ last.selected # <<>>

\* C12: there is never a temporary armature object besides the one named
\* object_name; once it exists every step leaves the set of objects as it is
\* (no operator makes another or deletes it), and an Add Empty that finished
\* has made it when there was none.
C12_OneContainer ==
    [][ /\ (objects' \ {RigObj}) \subseteq {object_name}
        /\ object_name \in objects => objects' = objects
        /\ (last'.op = "add_empty" /\ last'.outcome = "FINISHED") => object_name \in objects' ]_vars

\* Delete finished as the second operator or later and left the temporary
\* armature without bones.
C12_Witness ==
    /\ last.op = "delete_bone"
    /\ last.outcome = "FINISHED"
    /\ runs >= 2
    /\ object_name \in objects
    /\ order[object_name] = <<>>

\* The local duplicates of the source: every object but the source.
Duplicates == objects \ {RigObj}

\* C13: after a run of Make Local Armature on the source that follows an
\* earlier run on it there is exactly one duplicate object, and every bone of
\* the source has exactly one constraint, a COPY_TRANSFORMS aimed at its bone
\* in that duplicate.
C13_OneDuplicate ==
    (last.op = "make_local_armature" /\ last.outcome # "unavailable" /\ runs >= 2) =>
        /\ Cardinality(Duplicates) = 1
        /\ \A i \in DOMAIN order[RigObj] : \A d \in Duplicates :
              bones[<<RigObj, order[RigObj][i]>>].constraints
                  = <<NewConstraint("COPY_TRANSFORMS", d, order[RigObj][i], 0)>>

\* What the write loop keyed so far, per bone, when a write loop is running.
Keyed == IF task.pc = "idle" THEN <<>> ELSE task.keyed

\* C14: in quaternion mode the first rotation keyed for each bone is the
\* sampled one; every later one is the sampled quaternion or its negation and
\* its dot product with the one keyed before it for that bone is not negative;
\* the value the next frame is compared with is the one just keyed.
C14_QuaternionContinuity ==
    (task.pc # "idle" /\ task.rotation_mode = "QUATERNION") =>
        \A i \in DOMAIN Keyed :
            /\ \A k \in DOMAIN Keyed[i] :
                  /\ Keyed[i][k] \in {task.pose_info[i][k], Negated(task.pose_info[i][k])}
                  /\ k = 1 => Keyed[i][k] = task.pose_info[i][k]
                  /\ k > 1 => Dot(Keyed[i][k - 1], Keyed[i][k]) >= 0
            /\ (task.pc = "frame" /\ i = task.bone) =>
                  task.quat_prev = (IF Keyed[i] = <<>> THEN None ELSE Keyed[i][Len(Keyed[i])])

\* The second bone's three frames are keyed, the second and the third both
\* negated, after the first bone ended on a negated quaternion.
C14_Witness ==
    /\ task.pc = "done" /\ task.rotation_mode = "QUATERNION"
    /\ Keyed[1][MaxSamples] # task.pose_info[1][MaxSamples]
    /\ Keyed[2][2] # task.pose_info[2][2]
    /\ Keyed[2][3] # task.pose_info[2][3]

Sum3(e) == e[1] + e[2] + e[3]
AbsDiff(a, b) == <<Abs(a[1] - b[1]), Abs(a[2] - b[2]), Abs(a[3] - b[3])>>
\* The triples that differ from e by whole turns, up to two per component.
Congruent(e) ==
    { <<e[1] + FullTurn * n[1], e[2] + FullTurn * n[2], e[3] + FullTurn * n[3]>> :
        n \in [1..3 -> -2..2] }

\* C15: in an Euler mode every rotation keyed after a bone's first differs
\* from the sampled one by whole turns per component, and no triple that does
\* has a smaller total per-axis distance from the one keyed before it.
C15_EulerContinuity ==
    (task.pc # "idle" /\ task.rotation_mode = "XYZ") =>
        \A i \in DOMAIN Keyed : \A k \in DOMAIN Keyed[i] : k > 1 =>
            /\ Keyed[i][k] \in Congruent(task.pose_info[i][k])
            /\ \A c \in Congruent(task.pose_info[i][k]) :
                  Sum3(AbsDiff(Keyed[i][k], Keyed[i][k - 1])) <= Sum3(AbsDiff(c, Keyed[i][k - 1]))

IsPrefix(s, t) == Len(s) <= Len(t) /\ s = SubSeq(t, 1, Len(s))

\* The evaluation phase in the order C16 states it: per frame the cursor is
\* set, then every bone is sampled in the caller's order.
SamplingOrder(frames, pose_bones) ==
    Flatten([k \in DOMAIN frames |->
                <<Event("frame_set", NoId, frames[k])>>
                \o [i \in DOMAIN pose_bones |-> Event("sample", pose_bones[i], frames[k])]])

\* The write phase: bones in the caller's order and, per bone, the frames in
\* the caller's order.
WritingOrder(frames, pose_bones) ==
    Flatten([i \in DOMAIN pose_bones |->
                [k \in DOMAIN frames |-> Event("write", pose_bones[i], frames[k])]])

\* C16: a bake first sets the cursor to each frame in turn and samples every
\* bone there before it goes on to the next frame; until every frame is
\* sampled no curve has changed and the poses are those the cursor's frame
\* evaluates to; the writes then go bone by bone in the caller's order, each
\* bone's frames in the caller's order; and the call as a whole leaves what
\* custom_bake leaves.
C16_TwoPhases ==
    task.pc \notin {"idle"} =>
        /\ IsPrefix(task.log, SamplingOrder(task.frames, task.pose_bones)
                                \o WritingOrder(task.frames, task.pose_bones)
                                \o <<Event("frame_set", NoId, task.original_frame)>>)
        /\ task.pc \in {"frame", "sample"} =>
              /\ fcurves = task.start.fcurves
              /\ World = IF task.log = <<>> THEN task.start
                         ELSE frame_set(task.start, frame_current)
        /\ task.pc \in {"write", "end"} =>
              task.pose_info = bake_sample(task.start, task.frames, task.pose_bones)
        /\ task.pc = "returned" =>
              [w |-> World, outcome |-> task.outcome]
                  = custom_bake(task.start, task.frames, task.pose_bones,
                                task.do_location, task.do_rotation, task.do_scale)

\* A bake of two bones over two frames or more ran to its end and made curves.
C16_Witness ==
    /\ task.pc = "returned" /\ task.outcome = "FINISHED"
    /\ Len(task.pose_bones) = 2 /\ Len(task.frames) >= 2
    /\ task.do_location /\ task.do_rotation
    /\ fcurves # task.start.fcurves

\* The destination a switch recorded in the journal worked with.
DestOf(j) == IF j.op = "selection_to_world" THEN NoId ELSE j.dest

\* The names of the copies, as temp_bone_names holds them.
CopyNames(copies) == [i \in DOMAIN copies |-> copies[i][2]]

\* The world of a switch at line 441, before custom_bake: the bones made in
\* edit mode (lines 267-354) and set up in pose mode (lines 356-439).
Captured(w, src_pose_bones, dest) ==
    space_switch_pose_loop(
        LeaveEditMode(space_switch_edit_loop([w |-> EnterEditMode(space_switch_hide(w, src_pose_bones)),
                                              temp_bone_names |-> <<>>],
                                             src_pose_bones, dest, 1).w,
                      w.objects),
        src_pose_bones,
        space_switch_edit_loop([w |-> EnterEditMode(space_switch_hide(w, src_pose_bones)),
                                temp_bone_names |-> <<>>],
                               src_pose_bones, dest, 1).temp_bone_names,
        dest, active_pose_bone(w), 1)

\* In world w every copy carries the COPY_TRANSFORMS aimed at its source.
Attached(w, sources, copies) ==
    \A i \in DOMAIN copies :
        /\ copies[i] \in DOMAIN w.bones
        /\ CopyTransformsTo(sources[i]) \in Range(w.bones[copies[i]].constraints)

\* In world w some bone is constrained to one of the copies.
Reversed(w, copies) ==
    \E id \in DOMAIN w.bones : \E i \in DOMAIN w.bones[id].constraints :
        <<w.bones[id].constraints[i].target, w.bones[id].constraints[i].subtarget>> \in Range(copies)

\* The frames keyed on the curve of a bone's channel, {} without a curve.
KeyedFrames(w, id, channel) ==
    IF CurveIndex(w, id, channel) = 0 THEN {}
    ELSE DOMAIN Curves(w, id[1])[CurveIndex(w, id, channel)].keys

\* The world after the bake of a switch and before the loop of lines 446-457.
CaptureBaked(w, sources, copies, dest, frames) ==
    custom_bake(Captured(w, sources, dest), frames, copies, TRUE, TRUE, TRUE)

\* C17: in a switch that completes, every copy carries the COPY_TRANSFORMS to
\* its source when the bake starts and when it ends, and nothing is yet
\* constrained to a copy; the bake keys rotation and scale (and location,
\* unless the copy is connected) of every copy on every supplied frame; the
\* world the switch leaves is that bake's followed by the loop that removes the
\* COPY_TRANSFORMS and adds the reverse constraints, and in it no copy carries
\* a COPY_TRANSFORMS.
C17_OneShotCapture ==
    [][ (last'.op \in SwitchOps /\ last'.outcome = "FINISHED" /\ last'.sources # <<>>) =>
          /\ Attached(Captured(World, last'.sources, DestOf(last')), last'.sources, last'.copies)
          /\ ~Reversed(Captured(World, last'.sources, DestOf(last')), last'.copies)
          /\ CaptureBaked(World, last'.sources, last'.copies, DestOf(last'), last'.frames).outcome
                 = "FINISHED"
          /\ Attached(CaptureBaked(World, last'.sources, last'.copies, DestOf(last'), last'.frames).w,
                      last'.sources, last'.copies)
          /\ ~Reversed(CaptureBaked(World, last'.sources, last'.copies, DestOf(last'), last'.frames).w,
                       last'.copies)
          /\ WorldNext = space_switch_reverse_loop(
                             CaptureBaked(World, last'.sources, last'.copies, DestOf(last'),
                                          last'.frames).w,
                             last'.sources, last'.copies, 1)
          /\ \A i \in DOMAIN last'.copies :
                /\ \A k \in DOMAIN bones'[last'.copies[i]].constraints :
                      bones'[last'.copies[i]].constraints[k].type # "COPY_TRANSFORMS"
                /\ Range(last'.frames)
                      \subseteq KeyedFrames(WorldNext, last'.copies[i],
                                            RotChannel(bones'[last'.copies[i]].rotation_mode))
                                \cap KeyedFrames(WorldNext, last'.copies[i], "scale")
                /\ ~bones'[last'.copies[i]].use_connect =>
                      Range(last'.frames) \subseteq KeyedFrames(WorldNext, last'.copies[i], "location")
      ]_vars

\* A switch to a destination completed for a connected source, as the second
\* operator of the session or later.
C17_Witness ==
    /\ last.op \in {"selection_to_active", "selection_to_target"}
    /\ last.outcome = "FINISHED"
    /\ runs >= 2
    /\ \E i \in DOMAIN last.sources :
          bones[last.sources[i]].use_connect /\ last.copies[i] \in DOMAIN bones

\* The constraints of bone id in world w that are aimed at the bone t.
AimedAt(w, id, t) ==
    {i \in DOMAIN w.bones[id].constraints : is_constrained_to(w.bones[id].constraints[i], t)}

\* C18: when Delete or Apply has completed, no bone of any armature has a
\* constraint whose target or IK pole target is one of the bones that were
\* selected, however many such constraints it had, and every bone that had
\* one and still exists is shown.
C18_Released ==
    [][ (last'.op \in {"delete_bone", "apply_bone"} /\ last'.outcome = "FINISHED") =>
          \A k \in DOMAIN last'.selected :
              /\ \A id \in DOMAIN bones' : AimedAt(WorldNext, id, last'.selected[k]) = {}
              /\ \A id \in DOMAIN bones :
                    (AimedAt(World, id, last'.selected[k]) # {} /\ id \in DOMAIN bones')
                        => ~bones'[id].hide
      ]_vars

\* Delete or Apply completed and released an unconnected source bone, which a
\* switch had given two constraints aimed at its copy.
C18_Witness ==
    /\ last.op \in {"delete_bone", "apply_bone"}
    /\ last.outcome = "FINISHED"
    /\ \E i \in DOMAIN last.found :
          /\ last.found[i][1] = RigObj
          /\ ~bones[last.found[i]].use_connect
          /\ bones[last.found[i]].constraints = <<>>
          /\ ~bones[last.found[i]].hide

\* The key at frame f on the curve of a bone's channel.
KeyAt(w, id, channel, f) == Curves(w, id[1])[CurveIndex(w, id, channel)].keys[f]

\* In world w the bone has, on frame f, the keys matrix m gives it: rotation
\* and scale, and location unless it is connected.
KeyedAs(w, id, f, m) ==
    /\ f \in KeyedFrames(w, id, RotChannel(w.bones[id].rotation_mode))
    /\ KeyAt(w, id, RotChannel(w.bones[id].rotation_mode), f) = m.rot
    /\ f \in KeyedFrames(w, id, "scale")
    /\ KeyAt(w, id, "scale", f) = m.scale
    /\ ~w.bones[id].use_connect =>
          /\ f \in KeyedFrames(w, id, "location")
          /\ KeyAt(w, id, "location", f) = m.loc

\* The constraint stacks of all bones.
Stacks(w) == [id \in DOMAIN w.bones |-> w.bones[id].constraints]

\* C19: Apply bakes exactly the bones that have a constraint aimed at a
\* selected bone; when the bake raises, no constraint and no bone has been
\* removed; otherwise every baked bone of the source has, on every supplied
\* frame, rotation and scale keys (location too unless connected) of the pose
\* it had on that frame while the constraints and the temporary bones were
\* still there.
C19_ApplyBake ==
    [][ (last'.op = "apply_bone" /\ last'.outcome # "unavailable") =>
          /\ Range(last'.baked)
                 = {id \in DOMAIN bones : \E k \in DOMAIN last'.selected :
                                             AimedAt(World, id, last'.selected[k]) # {}}
          /\ last'.outcome = "RuntimeError" =>
                 Stacks(WorldNext) = Stacks(World)
          /\ last'.outcome # "RuntimeError" =>
                 \A i \in DOMAIN last'.baked : \A k \in DOMAIN last'.frames :
                     last'.baked[i][1] = RigObj =>
                         KeyedAs(WorldNext, last'.baked[i], last'.frames[k],
                                 convert_space(World, last'.baked[i], last'.frames[k]))
      ]_vars

\* An Apply completed that baked a bone of the source whose constraints moved it.
C19_Witness ==
    /\ last.op = "apply_bone" /\ last.outcome = "FINISHED"
    /\ \E i \in DOMAIN last.baked :
          /\ last.baked[i][1] = RigObj
          /\ last.baked[i] \in Range(last.found)
          /\ bones[last.baked[i]].constraints = <<>>

\* The bone the copy hangs under, and the bone above that one.
InnerAnchor(copy) == ParentId(World, copy)
OuterAnchor(copy) == ParentId(World, InnerAnchor(copy))

\* The COPY_LOCATION constraints of a bone.
CopyLocations(id) == {c \in Range(bones[id].constraints) : c.type = "COPY_LOCATION"}

\* C20 as stated: after a switch of a connected source the copy's direct
\* parent carries a COPY_LOCATION with head_tail 1.0 aimed at the source's
\* parent (to world) or at the destination (when one is given).
C20_InnerAnchor ==
    (last.op \in SwitchOps /\ last.outcome = "FINISHED") =>
        \A i \in DOMAIN last.sources : bones[last.sources[i]].use_connect =>
            /\ InnerAnchor(last.copies[i]) # NoId
            /\ (IF DestOf(last) = NoId
                THEN NewConstraint("COPY_LOCATION", last.sources[i][1],
                                   bones[last.sources[i]].parent, 1)
                ELSE NewConstraint("COPY_LOCATION", DestOf(last)[1], DestOf(last)[2], 1))
                   \in CopyLocations(InnerAnchor(last.copies[i]))

\* C20, amended: after a switch of a connected source the COPY_LOCATION with
\* head_tail 1.0 is on the outer anchor, the parent of the copy's parent, and
\* is aimed at the source's parent whether or not a destination is given; it is
\* the only COPY_LOCATION there, and the copy's direct parent and the copy
\* carry no constraint.
C20_OuterAnchor ==
    (last.op \in SwitchOps /\ last.outcome = "FINISHED") =>
        \A i \in DOMAIN last.sources : bones[last.sources[i]].use_connect =>
            /\ InnerAnchor(last.copies[i]) # NoId
            /\ OuterAnchor(last.copies[i]) # NoId
            /\ ParentId(World, OuterAnchor(last.copies[i])) = NoId
            /\ CopyLocations(OuterAnchor(last.copies[i]))
                   = {NewConstraint("COPY_LOCATION", last.sources[i][1],
                                    bones[last.sources[i]].parent, 1)}
            /\ bones[InnerAnchor(last.copies[i])].constraints = <<>>
            /\ bones[last.copies[i]].constraints = <<>>

\* A switch of a connected source to a destination completed; the chain above
\* the copy is two anchors tagged SPACE.
C20_Witness ==
    /\ last.op \in {"selection_to_active", "selection_to_target"}
    /\ last.outcome = "FINISHED"
    /\ \E i \in DOMAIN last.sources :
          /\ bones[last.sources[i]].use_connect
          /\ DestOf(last) \in DOMAIN bones
          /\ OuterAnchor(last.copies[i]) # NoId
          /\ TagOf(OuterAnchor(last.copies[i])) = "SPACE"
          /\ TagOf(InnerAnchor(last.copies[i])) = "SPACE"

\* The COPY_ROTATION constraints of a bone.
CopyRotations(id) == {c \in Range(bones[id].constraints) : c.type = "COPY_ROTATION"}

\* C21 as stated: after a switch of a connected source neither anchor above
\* its copy carries a COPY_ROTATION, with or without a destination.
C21_NoAnchorRotation ==
    (last.op \in SwitchOps /\ last.outcome = "FINISHED") =>
        \A i \in DOMAIN last.sources : bones[last.sources[i]].use_connect =>
            /\ CopyRotations(InnerAnchor(last.copies[i])) = {}
            /\ CopyRotations(OuterAnchor(last.copies[i])) = {}

\* C21, amended: after a switch of a connected source the inner anchor carries
\* no COPY_ROTATION; the outer anchor carries none after a switch to world and
\* exactly one, aimed at the destination, after a switch to a destination.
C21_OuterRotation ==
    (last.op \in SwitchOps /\ last.outcome = "FINISHED") =>
        \A i \in DOMAIN last.sources : bones[last.sources[i]].use_connect =>
            /\ CopyRotations(InnerAnchor(last.copies[i])) = {}
            /\ CopyRotations(OuterAnchor(last.copies[i]))
                   = (IF DestOf(last) = NoId THEN {}
                      ELSE {NewConstraint("COPY_ROTATION", DestOf(last)[1], DestOf(last)[2], 0)})
            /\ Len(bones[OuterAnchor(last.copies[i])].constraints)
                   = (IF DestOf(last) = NoId THEN 1 ELSE 2)

\* A switch to the active bone completed for a connected source, whose outer
\* anchor carries two constraints.
C21_Witness ==
    /\ last.op = "selection_to_active"
    /\ last.outcome = "FINISHED"
    /\ \E i \in DOMAIN last.sources :
          /\ bones[last.sources[i]].use_connect
          /\ Len(bones[OuterAnchor(last.copies[i])].constraints) = 2

\* The bones a step added to the temporary armature.
MadeBones == (DOMAIN bones') \ (DOMAIN bones)

\* After the step: the parent of a bone, and the chain of bones above it.
ParentNext(id) == IF id = NoId THEN NoId ELSE ParentId(WorldNext, id)
AnchorsNext(copy) ==
    {ParentNext(copy), ParentNext(ParentNext(copy)), ParentNext(ParentNext(ParentNext(copy)))}
        \ {NoId}

\* The constraints a bone has after the step, as a set.
ConstraintsNext(id) == Range(bones'[id].constraints)

\* C22: a switch that completes makes, above the copy of a connected source,
\* exactly two bones, the outer one the parent of the inner one and the inner
\* one the parent of the copy; above the copy of an unconnected source with a
\* destination exactly one bone, the copy's parent, which carries a
\* COPY_LOCATION and a COPY_ROTATION aimed at the destination and nothing else;
\* and above the copy of an unconnected source without a destination nothing,
\* the copy having no parent and no constraint.  It makes no other bone.
C22_AnchorStructure ==
    [][ (last'.op \in SwitchOps /\ last'.outcome = "FINISHED" /\ last'.sources # <<>>) =>
          /\ MadeBones = Range(last'.copies)
                           \cup UNION {AnchorsNext(last'.copies[i]) : i \in DOMAIN last'.copies}
          /\ \A i, j \in DOMAIN last'.copies :
                i # j => AnchorsNext(last'.copies[i]) \cap AnchorsNext(last'.copies[j]) = {}
          /\ \A i \in DOMAIN last'.sources :
                IF bones[last'.sources[i]].use_connect
                THEN /\ Cardinality(AnchorsNext(last'.copies[i])) = 2
                     /\ ParentNext(last'.copies[i]) # NoId
                     /\ ParentNext(ParentNext(last'.copies[i])) # NoId
                     /\ bones'[last'.copies[i]].use_connect
                ELSE IF DestOf(last') # NoId
                THEN /\ Cardinality(AnchorsNext(last'.copies[i])) = 1
                     /\ ParentNext(last'.copies[i]) # NoId
                     /\ ConstraintsNext(ParentNext(last'.copies[i]))
                            = {NewConstraint("COPY_LOCATION", DestOf(last')[1], DestOf(last')[2], 0),
                               NewConstraint("COPY_ROTATION", DestOf(last')[1], DestOf(last')[2], 0)}
                     /\ Len(bones'[ParentNext(last'.copies[i])].constraints) = 2
                ELSE /\ AnchorsNext(last'.copies[i]) = {}
                     /\ bones'[last'.copies[i]].constraints = <<>>
      ]_vars

\* A switch of an unconnected source to a destination completed after an
\* earlier operator had made bones in the temporary armature.
C22_Witness ==
    /\ last.op \in {"selection_to_active", "selection_to_target"}
    /\ last.outcome = "FINISHED"
    /\ runs >= 2
    /\ \E i \in DOMAIN last.sources :
          /\ ~bones[last.sources[i]].use_connect
          /\ InnerAnchor(last.copies[i]) # NoId
          /\ Cardinality(BoneNames(World, object_name)) >= 3

RemovalOps == {"delete_bone", "apply_bone"}

\* The bones the temporary armature holds, before and after the step.
TempBones == {id \in DOMAIN bones : id[1] = object_name}
TempBonesNext == {id \in DOMAIN bones' : id[1] = object_name}

\* A bone of the selection at invocation with its parent and its grandparent.
OuterOf(id) == IF ParentId(World, id) = NoId THEN id ELSE ParentId(World, id)
Unit(id) == {id, ParentId(World, id), ParentId(World, OuterOf(id))} \ {NoId}

\* C23: Delete and Apply, when they complete, remove from the temporary
\* armature every selected bone together with its parent and its grandparent,
\* where it has them, and leave every other bone of the armature in it.
C23_RemovedAsUnit ==
    [][ (last'.op \in RemovalOps /\ last'.outcome = "FINISHED") =>
          TempBonesNext = TempBones \ UNION {Unit(id) : id \in Range(last'.selected)}
      ]_vars

\* A Delete or Apply that completed removed a copy with its parent and its
\* grandparent.
C23_Witness ==
    /\ last.op \in RemovalOps
    /\ last.outcome = "FINISHED"
    /\ Len(last.names) >= 3
    /\ last.changed

\* The bones that have a curve in the action of the temporary armature.
TempCurveBones == {<<object_name, c.bone>> : c \in Range(Curves(World, object_name))}

\* C24: when Delete or Apply has completed, the action of the temporary
\* armature holds no curve of a bone that was selected when it was invoked,
\* whatever channels of that bone were keyed.
C24_NoCurveLeft ==
    (last.op \in RemovalOps /\ last.outcome = "FINISHED") =>
        TempCurveBones \cap Range(last.selected) = {}

\* Delete or Apply completed on the copies a space switch had just keyed, and
\* the temporary armature still has its action.
C24_Witness ==
    /\ last.op \in RemovalOps
    /\ last.outcome = "FINISHED"
    /\ last.after \in SwitchOps
    /\ last.names # <<>>
    /\ object_name \in DOMAIN fcurves

\* The mode changes the host is taken through.
ModeOrder ==
    {<<"POSE", "OBJECT">>, <<"OBJECT", "EDIT">>, <<"EDIT", "OBJECT">>, <<"OBJECT", "POSE">>}

\* What the whole operator makes of the world t was invoked in.
WholeOperator(t) ==
    CASE t.op = "selection_to_world" ->
             _space_switch(t.w0, selected_pose_bones(t.w0), NoId, WholeRange).w
      [] t.op = "selection_to_active" ->
             _space_switch(t.w0, selected_pose_bones(t.w0), t.dest, WholeRange).w
      [] t.op = "add_empty" -> add_empty_execute(t.w0, 1).w
      [] t.op = "delete_bone" -> _remove_bones_common(t.w0, FALSE, <<>>).w
      [] t.op = "apply_bone" -> _remove_bones_common(t.w0, TRUE, WholeRange).w

\* The selection, the tag and the constraints of a bone.
Touched(b) == <<b.select, b.space_switching_tag, b.constraints>>

\* C25: followed one mode change at a time, a switch, Add Empty, Delete and
\* Apply make and remove bones of the temporary armature only in edit mode
\* with the temporary object active; the mode only ever goes from pose to
\* object, from object to edit, from edit to object and from object to pose;
\* an operator that completes ends in pose mode, having made of the world what
\* the whole operator makes of it; and a bone the operator made is neither
\* selected nor tagged nor constrained before the operator is back in pose mode.
C25_ModeProtocol ==
    [][ /\ TempBonesNext # TempBones =>
              /\ mode = "EDIT" /\ mode' = "EDIT"
              /\ activeObj = object_name /\ activeObj' = object_name
        /\ mode' # mode => <<mode, mode'>> \in ModeOrder
        /\ (task.pc # "idle" /\ task'.pc = "idle" /\ last'.outcome = "FINISHED") =>
              /\ task.pc = "posed"
              /\ mode' = "POSE"
              /\ WorldNext = WholeOperator(task)
        /\ task.pc # "idle" =>
              \A id \in TempBonesNext \ DOMAIN task.w0.bones :
                  /\ id \notin TempBones => Touched(bones'[id]) = <<FALSE, "NONE", <<>>>>
                  /\ id \in TempBones =>
                        (Touched(bones'[id]) # Touched(bones[id]) => task.pc = "posed" /\ mode = "POSE")
      ]_vars

\* A switch of a connected bone completed, step by step, and the Delete of
\* its copy after it.
C25_Witness ==
    /\ task.pc = "idle"
    /\ last.op = "delete_bone"
    /\ last.after \in SwitchOps
    /\ last.outcome = "FINISHED"
    /\ Len(last.names) >= 3
    /\ mode = "POSE"

\* C26: is_constrained_to returns true exactly when the constraint's target
\* and subtarget are the candidate bone's object and name, or the constraint
\* is an IK constraint whose pole target and pole subtarget are; so it returns
\* false for a constraint of another type whose pole fields alone match.
C26_ConstrainedExactly ==
    task.pc = "returned" =>
        /\ task.result =
              (\/ <<task.constraint.target, task.constraint.subtarget>> = task.target_pose_bone
               \/ /\ task.constraint.type = "IK"
                  /\ <<task.constraint.pole_target, task.constraint.pole_subtarget>>
                         = task.target_pose_bone)
        /\ (/\ task.constraint.type # "IK"
            /\ <<task.constraint.target, task.constraint.subtarget>> # task.target_pose_bone)
              => ~task.result

\* The function returned false for a constraint that is not an IK constraint
\* and whose pole fields are the candidate.
C26_Witness ==
    /\ task.pc = "returned"
    /\ task.constraint.type = "COPY_ROTATION"
    /\ <<task.constraint.pole_target, task.constraint.pole_subtarget>> = task.target_pose_bone
    /\ <<task.constraint.target, task.constraint.subtarget>> # task.target_pose_bone
    /\ ~task.result

\* The anchors above a copy.
Anchors(copy) ==
    IF InnerAnchor(copy) = NoId THEN {}
    ELSE {InnerAnchor(copy), OuterAnchor(copy)} \ {NoId}

\* C27: when a space switch has completed on a working set that is not
\* empty, every source is hidden and not selected, every copy is selected,
\* every anchor is hidden, and the copy of a source that was the active bone
\* when the switch was invoked is the active bone of the temporary armature.
C27_SwitchSelection ==
    (last.op \in SwitchOps /\ last.outcome = "FINISHED" /\ last.sources # <<>>) =>
        \A i \in DOMAIN last.sources :
            /\ bones[last.sources[i]].hide
            /\ ~bones[last.sources[i]].select
            /\ bones[last.copies[i]].select
            /\ \A a \in Anchors(last.copies[i]) : bones[a].hide
            /\ last.active = last.sources[i] =>
                  activeBone[object_name] = last.copies[i][2]

\* A switch completed whose active bone was a source with an anchor, and the
\* copy of that source is the active bone of the temporary armature.
C27_Witness ==
    /\ last.op \in SwitchOps
    /\ last.outcome = "FINISHED"
    /\ \E i \in DOMAIN last.sources :
          /\ last.active = last.sources[i]
          /\ Cardinality(Anchors(last.copies[i])) >= 1
          /\ activeBone[object_name] = last.copies[i][2]

\* The bones of the armatures that are not the temporary one.
SourceBones == {id \in DOMAIN bones : id[1] # object_name}

\* C28: when Delete or Apply has completed, every bone that was found
\* constrained to a selected bone is selected; if the bone that was active at
\* invocation is one of the selected bones and some bone was constrained to
\* it, a bone that was constrained to it is the active bone afterwards; and if
\* no bone was constrained to it, no bone of a source armature is the active
\* bone afterwards.
C28_SourcesReselected ==
    [][ (last'.op \in RemovalOps /\ last'.outcome = "FINISHED") =>
          /\ \A i \in DOMAIN last'.found : bones'[last'.found[i]].select
          /\ Range(last'.found)
                = UNION {Range(ConstrainedTo(World, id)) : id \in Range(last'.selected)}
          /\ last'.active \in Range(last'.selected) =>
                IF ConstrainedTo(World, last'.active) # <<>>
                THEN active_pose_bone(WorldNext) \in Range(ConstrainedTo(World, last'.active))
                ELSE active_pose_bone(WorldNext) \notin SourceBones
      ]_vars

\* The bones of object obj whose curves the step changed.
Rekeyed(obj) ==
    {<<obj, c.bone>> : c \in Range(Curves(WorldNext, obj)) \ Range(Curves(World, obj))}

\* C29: no bone tagged SPACE ever has a curve in the action of the temporary
\* armature: a switch that completes changes the curves of its copies only,
\* and Apply bakes no bone tagged SPACE.
C29_AnchorsNeverKeyed ==
    [][ /\ \A id \in Rekeyed(object_name) :
              id \in DOMAIN bones' => bones'[id].space_switching_tag # "SPACE"
        /\ (last'.op \in SwitchOps /\ last'.outcome = "FINISHED") =>
              Rekeyed(object_name) \cup Rekeyed(RigObj) \subseteq Range(last'.copies)
        /\ last'.op = "apply_bone" =>
              \A i \in DOMAIN last'.baked : TagOf(last'.baked[i]) # "SPACE"
      ]_vars

\* The curves of bone id in the action of its object in world w.
CurvesOf(w, id) == SeqFilter(Curves(w, id[1]), {c \in Range(Curves(w, id[1])) : c.bone = id[2]})

\* The copies of the switch just run, with the anchors above them.
SwitchMade == Range(last.copies) \cup UNION {Anchors(last.copies[i]) : i \in DOMAIN last.copies}

\* C30: a switch and the Delete of all its copies right after it leave every
\* source without constraints and shown, leave none of the copies and anchors
\* of the switch in the temporary armature and none of their curves in its
\* action, and neither the switch nor the Delete changes a curve of a source.
C30_DiscardRoundTrip ==
    [][ /\ (last'.op \in SwitchOps /\ last'.outcome = "FINISHED") =>
              \A i \in DOMAIN last'.sources :
                  CurvesOf(WorldNext, last'.sources[i]) = CurvesOf(World, last'.sources[i])
        /\ ( /\ last.op \in SwitchOps /\ last.outcome = "FINISHED" /\ last.sources # <<>>
             /\ last'.op = "delete_bone" /\ last'.outcome # "unavailable"
             /\ Range(Selected) = Range(last.copies) ) =>
              /\ last'.outcome = "FINISHED"
              /\ \A i \in DOMAIN last.sources :
                    /\ bones'[last.sources[i]].constraints = <<>>
                    /\ ~bones'[last.sources[i]].hide
                    /\ CurvesOf(WorldNext, last.sources[i]) = CurvesOf(World, last.sources[i])
              /\ SwitchMade \cap DOMAIN bones' = {}
              /\ TempBonesNext = TempBones \ SwitchMade
              /\ \A id \in SwitchMade : CurvesOf(WorldNext, id) = <<>>
      ]_vars

\* The outcomes of the two tests of list lengths (lines 368-369 and 443-444).
Mismatches == {"edit bones list mismatch", "reverse constraints list mismatch"}

\* C31: a switch that gets past the early return of line 262 never raises
\* either mismatch error: it has as many copy names as sources, the names are
\* those of as many different pose bones, and at the bake each of these copies
\* carries the COPY_TRANSFORMS constraint that is removed afterwards.
C31_NoMismatch ==
    [][ (last'.op \in SwitchOps /\ last'.sources # <<>>) =>
          /\ last'.outcome \notin Mismatches
          /\ Len(last'.copies) = Len(last'.sources)
          /\ Cardinality(Range(last'.copies)) = Len(last'.sources)
          /\ Attached(Captured(World, last'.sources, DestOf(last')), last'.sources, last'.copies)
          /\ last'.outcome = "FINISHED" =>
                \A i \in DOMAIN last'.copies :
                    /\ last'.copies[i] \in DOMAIN bones'
                    /\ CopyTransformsTo(last'.sources[i])
                           \notin Range(bones'[last'.copies[i]].constraints)
      ]_vars

\* A switch of two sources completed.
C31_Witness ==
    /\ last.op \in SwitchOps
    /\ last.outcome = "FINISHED"
    /\ Len(last.sources) >= 2
    /\ Len(last.copies) = Len(last.sources)

\* Lines 183-189: names_of_bones_to_remove for the selection of the world.
NamesToRemove == Flatten([i \in DOMAIN Selected |-> names_to_remove(World, Selected[i])])

\* C32: whenever Delete or Apply is run on a selection its poll accepts, the
\* names collected for removal are all different, and the operator does not
\* end in the KeyError of a lookup of a bone that is gone.
C32_NoDoubleDeletion ==
    [][ (last'.op \in RemovalOps /\ last'.outcome # "unavailable") =>
          /\ Cardinality(Range(NamesToRemove)) = Len(NamesToRemove)
          /\ last'.outcome # "KeyError"
      ]_vars

\* What bone id depends on directly: its parent and the targets and pole
\* targets of its constraints, as far as they are bones of the scene.
DependsOn(id) ==
    ({ParentId(World, id)}
        \cup {<<bones[id].constraints[i].target, bones[id].constraints[i].subtarget>> :
                 i \in DOMAIN bones[id].constraints}
        \cup {<<bones[id].constraints[i].pole_target, bones[id].constraints[i].pole_subtarget>> :
                 i \in DOMAIN bones[id].constraints})
    \cap DOMAIN bones

\* The bones reached from the bones of S in up to n more steps.
RECURSIVE Reached(_, _)
Reached(S, n) ==
    IF n = 0 THEN S ELSE Reached(S \cup UNION {DependsOn(x) : x \in S}, n - 1)

\* C33: no bone depends on itself through parents and constraint targets.
C33_Acyclic ==
    \A id \in DOMAIN bones : id \notin Reached(DependsOn(id), Cardinality(DOMAIN bones))

\* C34: the object Make Local Armature deletes is neither the temporary
\* armature object nor the source, but a duplicate of the source made by an
\* earlier run.
C34_DeletesOwnDuplicate ==
    [][ last'.op = "make_local_armature" =>
          objects \ objects' \subseteq Duplicates \ {object_name} ]_vars

====
